---- MODULE Spec2Model ----
(***************************************************************************)
(* State-machine model of the organ donation system:                       *)
(*   - contracts/Oracle.sol  (OrganOracle)                                 *)
(*   - contracts/Donor.sol   (Donor registry)                              *)
(*   - client/index.js       (browser handlers that submit transactions)   *)
(* A transaction is one atomic step: it either applies all its writes or   *)
(* reverts and leaves the chain state as it was.  The outcome of the last  *)
(* transaction (receipt or revert reason) is kept in lastTx.               *)
(***************************************************************************)
EXTENDS Integers, Sequences, FiniteSets, TLC

\* ------------------------------------------------------------------ bounds
MaxRequests == 2
MaxTime == 2
MaxOrgans == 1
MaxEntries == 2
MaxProposals == 2
MaxInFlight == 1
\* death checks counted per request before polling stops reaching it
MaxChecks == 3

\* --------------------------------------------------------------- addresses
ZeroAddr == "0x0"
OwnerAcct == "owner"
BackupAcct == "backup"
OtherAcct == "other"
OracleAddr == "oracleContract"
DonorContractAddr == "donorContract"
Accounts == {OwnerAcct, BackupAcct, OtherAcct}
DonorAddrs == {"d1", "d2"}

\* enum DonorStatus { Active, Deactivated, Matched, Deceased }
DonorStatus == {"Active", "Deactivated", "Matched", "Deceased"}

EvidenceCIDs == {"", "QmEvidence"}
\* the evidence that accompanies a verdict: a certificate when deceased
CidFor(isDeceased) == IF isDeceased THEN "QmEvidence" ELSE ""

VARIABLES
  now,                 \* block.timestamp
  lastTx,              \* outcome of the last transaction submitted
  \* OrganOracle storage
  oracleOwner, authorizedOracles, requestIdCounter, requests,
  donorLatestRequest, usedSignatures,
  \* Donor storage
  donorOwner, oracleContract, donors, isDonorRegistered, donorList,
  authorizedContracts,
  \* OrganNFT and OrganMatching storage
  organs, waitingList, proposals,
  \* client handlers that have read the chain and not yet submitted
  pendingTransplant,
  \* the urgencyLevel carried by the last waiting-list transaction submitted
  submittedUrgency,
  \* what the client shows in its result panel
  matchingResults,
  \* client manualFulfillRequest between its fulfil and its confirmDeath
  manualTask,
  \* backend server: the process, its isInitialized flag, and the responses
  \* written to the request last received
  serverUp, isInitialized, httpResponse,
  \* backend: where the app.listen callback and a GET /api/account request
  \* stand with their call of initializeContracts
  initializing,
  \* Recipient registry: the registered addresses
  registeredRecipients,
  \* OrganMatching scoring weights, by parameter name
  scoringWeights,
  \* oracle service: CONFIG.useMockAPI, the processedRequests set, the
  \* OracleRequest events the listener has received, the processRequest calls
  \* under way (one per delivery path), and the death checks run and fulfil
  \* transactions sent so far for each request id
  useMockAPI, processedRequests, eventsSeen, tasks, deathChecks, fulfilSends

oracleVars == <<oracleOwner, authorizedOracles, requestIdCounter, requests,
                donorLatestRequest, usedSignatures>>
donorVars == <<donorOwner, oracleContract, donors, isDonorRegistered, donorList,
               authorizedContracts>>
organVars == <<organs, waitingList, proposals, pendingTransplant>>
clientVars == <<submittedUrgency, matchingResults, manualTask>>
backendVars == <<serverUp, isInitialized, httpResponse, initializing>>
serviceVars == <<useMockAPI, processedRequests, eventsSeen, tasks, deathChecks,
                 fulfilSends>>
offChainVars == <<clientVars, backendVars, serviceVars>>
scoringVars == <<scoringWeights>>
recipientVars == <<registeredRecipients>>
vars == <<now, lastTx, oracleVars, donorVars, organVars, offChainVars, scoringVars,
          recipientVars>>

\* --------------------------------------------------------- OrganOracle data
ReqIds == 1..MaxRequests

\* the value a Solidity mapping returns for a key never written
ZeroRequest ==
  [requestId |-> 0, donorAddress |-> ZeroAddr, requester |-> ZeroAddr,
   timestamp |-> 0, fulfilled |-> FALSE, isDeceased |-> FALSE,
   evidenceCID |-> "", fulfilledTimestamp |-> 0, fulfilledBy |-> ZeroAddr]

RequestAt(id) == IF id \in DOMAIN requests THEN requests[id] ELSE ZeroRequest

\* keccak256(abi.encodePacked(requestId, isDeceased, evidenceCID, chainid, this))
MessageHash(requestId, isDeceased, evidenceCID) ==
  <<requestId, isDeceased, evidenceCID>>

\* a signature is the signer's key applied to a message hash; a signature of
\* the wrong length is the value BadLengthSig
BadLengthSig == [signer |-> ZeroAddr, hash |-> <<>>]
Signatures ==
  [signer : Accounts,
   hash : {MessageHash(i, b, c) : i \in ReqIds, b \in BOOLEAN, c \in EvidenceCIDs}]
  \cup {BadLengthSig}

\* ecrecover: the signer when the signature is over this hash, otherwise an
\* address that belongs to nobody
recoverSigner(hash, signature) ==
  IF signature.hash = hash THEN signature.signer ELSE ZeroAddr

Ok(fn) == "ok"
Err(fn, msg) == msg
Revert(fn, msg) == lastTx' = Err(fn, msg)

\* ----------------------------------------------------------- Donor data
ZeroDonor ==
  [name |-> "", age |-> 0, bloodType |-> "", status |-> "Active",
   registrationDate |-> 0, deathVerificationRequestId |-> 0,
   deathTimestamp |-> 0, deathEvidenceCID |-> ""]

\* modifier onlyAuthorized
onlyAuthorized(sender) == sender = donorOwner \/ authorizedContracts[sender]

AllAddrs == Accounts \cup {OracleAddr, DonorContractAddr, ZeroAddr}

\* ------------------------------------------------------ OrganOracle contract

\* constructor(): msg.sender is the deployer, accounts[0]
OracleConstructor ==
  /\ oracleOwner = OwnerAcct
  /\ requestIdCounter = 1
  /\ authorizedOracles = [a \in AllAddrs |-> a = OwnerAcct]
  /\ requests = [i \in ReqIds |-> ZeroRequest]
  /\ donorLatestRequest = [d \in DonorAddrs |-> 0]
  /\ usedSignatures = {}

\* modifier onlyOwner, then the require of setOracleAuthorization
SetAuthorizationRequire(sender, oracleAddress) ==
  IF sender # oracleOwner THEN "Only owner can call this function"
  ELSE IF oracleAddress = ZeroAddr THEN "Invalid oracle address"
  ELSE ""

setOracleAuthorization(sender, oracleAddress, authorized) ==
  /\ IF SetAuthorizationRequire(sender, oracleAddress) # ""
       THEN /\ Revert("setOracleAuthorization",
                      SetAuthorizationRequire(sender, oracleAddress))
            /\ UNCHANGED authorizedOracles
       ELSE /\ authorizedOracles' =
                 [authorizedOracles EXCEPT ![oracleAddress] = authorized]
            /\ lastTx' = Ok("setOracleAuthorization")
  /\ UNCHANGED <<oracleOwner, requestIdCounter, requests, donorLatestRequest,
                 usedSignatures>>
  /\ UNCHANGED <<now, donorVars, organVars, offChainVars, scoringVars, recipientVars>>

TransferOwnershipRequire(sender, newOwner) ==
  IF sender # oracleOwner THEN "Only owner can call this function"
  ELSE IF newOwner = ZeroAddr THEN "Invalid new owner"
  ELSE ""

transferOwnership(sender, newOwner) ==
  /\ IF TransferOwnershipRequire(sender, newOwner) # ""
       THEN /\ Revert("transferOwnership", TransferOwnershipRequire(sender, newOwner))
            /\ UNCHANGED <<oracleOwner, authorizedOracles>>
       ELSE /\ oracleOwner' = newOwner
            /\ authorizedOracles' = [authorizedOracles EXCEPT ![newOwner] = TRUE]
            /\ lastTx' = Ok("transferOwnership")
  /\ UNCHANGED <<requestIdCounter, requests, donorLatestRequest, usedSignatures>>
  /\ UNCHANGED <<now, donorVars, organVars, offChainVars, scoringVars, recipientVars>>

\* the require of OrganOracle.requestDeathVerification
RequestRequire(donorAddress) ==
  IF donorAddress = ZeroAddr THEN "Invalid donor address" ELSE ""

\* fault variant of the request's writes: the counter is not incremented
OracleRequestWritesSameId(sender, donorAddress) ==
  /\ requests' = [requests EXCEPT ![requestIdCounter] =
        [requestId |-> requestIdCounter, donorAddress |-> donorAddress,
         requester |-> sender, timestamp |-> now, fulfilled |-> FALSE,
         isDeceased |-> FALSE, evidenceCID |-> "", fulfilledTimestamp |-> 0,
         fulfilledBy |-> ZeroAddr]]
  /\ donorLatestRequest' = [donorLatestRequest EXCEPT ![donorAddress] = requestIdCounter]
  /\ UNCHANGED <<requestIdCounter, oracleOwner, authorizedOracles, usedSignatures>>

\* the storage writes of OrganOracle.requestDeathVerification; the id returned
\* is the counter's value before the increment
OracleRequestWrites(sender, donorAddress) ==
  /\ requests' = [requests EXCEPT ![requestIdCounter] =
        [requestId |-> requestIdCounter, donorAddress |-> donorAddress,
         requester |-> sender, timestamp |-> now, fulfilled |-> FALSE,
         isDeceased |-> FALSE, evidenceCID |-> "", fulfilledTimestamp |-> 0,
         fulfilledBy |-> ZeroAddr]]
  /\ donorLatestRequest' = [donorLatestRequest EXCEPT ![donorAddress] = requestIdCounter]
  /\ requestIdCounter' = requestIdCounter + 1
  /\ UNCHANGED <<oracleOwner, authorizedOracles, usedSignatures>>

\* OrganOracle.requestDeathVerification called in a transaction of its own
requestDeathVerification(sender, donorAddress) ==
  /\ requestIdCounter <= MaxRequests
  /\ IF RequestRequire(donorAddress) # ""
       THEN /\ Revert("requestDeathVerification", RequestRequire(donorAddress))
            /\ UNCHANGED oracleVars
       ELSE /\ OracleRequestWrites(sender, donorAddress)
            /\ lastTx' = Ok("requestDeathVerification")
  /\ UNCHANGED <<now, donorVars, organVars, offChainVars, scoringVars, recipientVars>>

\* fault variant of the fulfil preconditions: a fulfilled request is accepted
FulfillRequireRepeatable(sender, requestId) ==
  IF ~authorizedOracles[sender] THEN "Not an authorized oracle"
  ELSE IF RequestAt(requestId).requestId = 0 THEN "Request does not exist"
  ELSE ""

\* modifier onlyAuthorizedOracle, then the two requires shared by both fulfil
\* functions
FulfillRequire(sender, requestId) ==
  IF ~authorizedOracles[sender] THEN "Not an authorized oracle"
  ELSE IF RequestAt(requestId).requestId = 0 THEN "Request does not exist"
  ELSE IF RequestAt(requestId).fulfilled THEN "Request already fulfilled"
  ELSE ""

FulfillWrites(sender, requestId, isDeceased, evidenceCID) ==
  requests' = [requests EXCEPT ![requestId] =
      [@ EXCEPT !.fulfilled = TRUE, !.isDeceased = isDeceased,
                !.evidenceCID = evidenceCID, !.fulfilledTimestamp = now,
                !.fulfilledBy = sender]]

Oracle_fulfillDeathVerification(sender, requestId, isDeceased, evidenceCID) ==
  /\ IF FulfillRequire(sender, requestId) # ""
       THEN /\ Revert("fulfillDeathVerification", FulfillRequire(sender, requestId))
            /\ UNCHANGED requests
       ELSE /\ FulfillWrites(sender, requestId, isDeceased, evidenceCID)
            /\ lastTx' = Ok("fulfillDeathVerification")
  /\ UNCHANGED <<oracleOwner, authorizedOracles, requestIdCounter,
                 donorLatestRequest, usedSignatures>>
  /\ UNCHANGED <<now, donorVars, organVars, scoringVars, recipientVars>>

\* OrganOracle.fulfillDeathVerification called in a transaction of its own
fulfillDeathVerification(sender, requestId, isDeceased, evidenceCID) ==
  /\ Oracle_fulfillDeathVerification(sender, requestId, isDeceased, evidenceCID)
  /\ UNCHANGED offChainVars

\* the checks of fulfillWithSignature after the shared requires: replay,
\* signature length (splitSignature), signer
SignatureRequire(sender, requestId, isDeceased, evidenceCID, signature) ==
  IF MessageHash(requestId, isDeceased, evidenceCID) \in usedSignatures
    THEN "Signature already used"
  ELSE IF signature = BadLengthSig THEN "Invalid signature length"
  ELSE IF recoverSigner(MessageHash(requestId, isDeceased, evidenceCID), signature)
            # sender
    THEN "Invalid signature"
  ELSE ""

fulfillWithSignature(sender, requestId, isDeceased, evidenceCID, signature) ==
  /\ IF FulfillRequire(sender, requestId) # ""
       THEN /\ Revert("fulfillWithSignature", FulfillRequire(sender, requestId))
            /\ UNCHANGED <<requests, usedSignatures>>
       ELSE IF SignatureRequire(sender, requestId, isDeceased, evidenceCID, signature) # ""
       THEN /\ Revert("fulfillWithSignature",
                      SignatureRequire(sender, requestId, isDeceased, evidenceCID,
                                       signature))
            /\ UNCHANGED <<requests, usedSignatures>>
       ELSE /\ usedSignatures' =
                 usedSignatures \cup {MessageHash(requestId, isDeceased, evidenceCID)}
            /\ FulfillWrites(sender, requestId, isDeceased, evidenceCID)
            /\ lastTx' = Ok("fulfillWithSignature")
  /\ UNCHANGED <<oracleOwner, authorizedOracles, requestIdCounter, donorLatestRequest>>
  /\ UNCHANGED <<now, donorVars, organVars, offChainVars, scoringVars, recipientVars>>

\* view: (isVerified, isDeceased, evidenceCID) of the donor's latest request
getDeathVerification(donorAddress) ==
  IF donorLatestRequest[donorAddress] = 0
    THEN <<FALSE, FALSE, "">>
    ELSE <<RequestAt(donorLatestRequest[donorAddress]).fulfilled,
           RequestAt(donorLatestRequest[donorAddress]).isDeceased,
           RequestAt(donorLatestRequest[donorAddress]).evidenceCID>>

\* view: ids 1 .. requestIdCounter-1 whose request is not fulfilled
getPendingRequests ==
  {i \in 1..(requestIdCounter - 1) : ~RequestAt(i).fulfilled}

\* ------------------------------------------------------------ Donor contract

\* constructor(): msg.sender is the deployer, accounts[0]
DonorConstructor ==
  /\ donorOwner = OwnerAcct
  /\ oracleContract = ZeroAddr
  /\ donors = [d \in DonorAddrs |-> ZeroDonor]
  /\ isDonorRegistered = [d \in DonorAddrs |-> FALSE]
  /\ donorList = <<>>
  /\ authorizedContracts = [a \in AllAddrs |-> FALSE]

SetOracleContractRequire(sender, _oracleContract) ==
  IF sender # donorOwner THEN "Only owner can call this function"
  ELSE IF _oracleContract = ZeroAddr THEN "Invalid oracle address"
  ELSE ""

setOracleContract(sender, _oracleContract) ==
  /\ IF SetOracleContractRequire(sender, _oracleContract) # ""
       THEN /\ Revert("setOracleContract",
                      SetOracleContractRequire(sender, _oracleContract))
            /\ UNCHANGED <<oracleContract, authorizedContracts>>
       ELSE /\ oracleContract' = _oracleContract
            /\ authorizedContracts' =
                 [authorizedContracts EXCEPT ![_oracleContract] = TRUE]
            /\ lastTx' = Ok("setOracleContract")
  /\ UNCHANGED <<donorOwner, donors, isDonorRegistered, donorList>>
  /\ UNCHANGED <<now, oracleVars, organVars, offChainVars, scoringVars, recipientVars>>

setAuthorizedContract(sender, contractAddress, authorized) ==
  /\ IF sender # donorOwner
       THEN /\ Revert("setAuthorizedContract", "Only owner can call this function")
            /\ UNCHANGED authorizedContracts
       ELSE /\ authorizedContracts' =
                 [authorizedContracts EXCEPT ![contractAddress] = authorized]
            /\ lastTx' = Ok("setAuthorizedContract")
  /\ UNCHANGED <<donorOwner, oracleContract, donors, isDonorRegistered, donorList>>
  /\ UNCHANGED <<now, oracleVars, organVars, offChainVars, scoringVars, recipientVars>>

\* fault variant of the registration requires: the age is not checked
RegisterDonorRequireAnyAge(sender, donorAddress, name, age, bloodType) ==
  IF sender # donorOwner THEN "Only owner can call this function"
  ELSE IF isDonorRegistered[donorAddress] THEN "Donor already registered"
  ELSE IF name = "" THEN "Name cannot be empty"
  ELSE IF bloodType = "" THEN "Blood type cannot be empty"
  ELSE ""

RegisterDonorRequire(sender, donorAddress, name, age, bloodType) ==
  IF sender # donorOwner THEN "Only owner can call this function"
  ELSE IF isDonorRegistered[donorAddress] THEN "Donor already registered"
  ELSE IF age < 18 THEN "Donor must be at least 18 years old"
  ELSE IF name = "" THEN "Name cannot be empty"
  ELSE IF bloodType = "" THEN "Blood type cannot be empty"
  ELSE ""

Donor_registerDonor(sender, donorAddress, name, age, bloodType) ==
  /\ IF RegisterDonorRequire(sender, donorAddress, name, age, bloodType) # ""
       THEN /\ Revert("registerDonor",
                      RegisterDonorRequire(sender, donorAddress, name, age, bloodType))
            /\ UNCHANGED <<donors, isDonorRegistered, donorList>>
       ELSE /\ donors' = [donors EXCEPT ![donorAddress] =
                 [name |-> name, age |-> age, bloodType |-> bloodType,
                  status |-> "Active", registrationDate |-> now,
                  deathVerificationRequestId |-> 0, deathTimestamp |-> 0,
                  deathEvidenceCID |-> ""]]
            /\ isDonorRegistered' = [isDonorRegistered EXCEPT ![donorAddress] = TRUE]
            /\ donorList' = Append(donorList, donorAddress)
            /\ lastTx' = Ok("registerDonor")
  /\ UNCHANGED <<donorOwner, oracleContract, authorizedContracts>>
  /\ UNCHANGED <<now, oracleVars, organVars, scoringVars, recipientVars>>

\* registerDonor sent to the contract by an account
registerDonor(sender, donorAddress, name, age, bloodType) ==
  /\ Donor_registerDonor(sender, donorAddress, name, age, bloodType)
  /\ UNCHANGED offChainVars

UpdateDonorStatusRequire(sender, donorAddress) ==
  IF ~onlyAuthorized(sender) THEN "Not authorized"
  ELSE IF ~isDonorRegistered[donorAddress] THEN "Donor not registered"
  ELSE ""

\* Donor.updateDonorStatus: any value of the enum is stored as given
updateDonorStatus(sender, donorAddress, newStatus) ==
  /\ IF UpdateDonorStatusRequire(sender, donorAddress) # ""
       THEN /\ Revert("updateDonorStatus", UpdateDonorStatusRequire(sender, donorAddress))
            /\ UNCHANGED donors
       ELSE /\ donors' = [donors EXCEPT ![donorAddress].status = newStatus]
            /\ lastTx' = Ok("updateDonorStatus")
  /\ UNCHANGED <<donorOwner, oracleContract, isDonorRegistered, donorList,
                 authorizedContracts>>
  /\ UNCHANGED <<now, oracleVars, organVars, offChainVars, scoringVars, recipientVars>>

DeactivateDonorRequire(sender, donorAddress) ==
  IF sender # donorOwner THEN "Only owner can call this function"
  ELSE IF ~isDonorRegistered[donorAddress] THEN "Donor not registered"
  ELSE ""

deactivateDonor(sender, donorAddress) ==
  /\ IF DeactivateDonorRequire(sender, donorAddress) # ""
       THEN /\ Revert("deactivateDonor", DeactivateDonorRequire(sender, donorAddress))
            /\ UNCHANGED donors
       ELSE /\ donors' = [donors EXCEPT ![donorAddress].status = "Deactivated"]
            /\ lastTx' = Ok("deactivateDonor")
  /\ UNCHANGED <<donorOwner, oracleContract, isDonorRegistered, donorList,
                 authorizedContracts>>
  /\ UNCHANGED <<now, oracleVars, organVars, offChainVars, scoringVars, recipientVars>>

DonorRequestRequire(sender, donorAddress) ==
  IF ~onlyAuthorized(sender) THEN "Not authorized"
  ELSE IF ~isDonorRegistered[donorAddress] THEN "Donor not registered"
  ELSE IF oracleContract = ZeroAddr THEN "Oracle contract not set"
  ELSE IF donors[donorAddress].status # "Active" THEN "Donor must be active"
  ELSE IF oracleContract # OracleAddr \/ RequestRequire(donorAddress) # ""
    THEN "Oracle request failed"
  ELSE ""

\* Donor.requestDeathVerification: calls the oracle (msg.sender there is the
\* Donor contract) and stores the id it returns
Donor_requestDeathVerification(sender, donorAddress) ==
  /\ requestIdCounter <= MaxRequests
  /\ IF DonorRequestRequire(sender, donorAddress) # ""
       THEN /\ Revert("Donor.requestDeathVerification",
                      DonorRequestRequire(sender, donorAddress))
            /\ UNCHANGED <<donors, oracleVars>>
       ELSE /\ OracleRequestWrites(DonorContractAddr, donorAddress)
            /\ donors' = [donors EXCEPT
                 ![donorAddress].deathVerificationRequestId = requestIdCounter]
            /\ lastTx' = Ok("Donor.requestDeathVerification")
  /\ UNCHANGED <<donorOwner, oracleContract, isDonorRegistered, donorList,
                 authorizedContracts>>
  /\ UNCHANGED <<now, organVars, offChainVars, scoringVars, recipientVars>>

ConfirmDeathRequire(sender, donorAddress, requestId) ==
  IF ~onlyAuthorized(sender) THEN "Not authorized"
  ELSE IF ~isDonorRegistered[donorAddress] THEN "Donor not registered"
  ELSE IF donors[donorAddress].deathVerificationRequestId # requestId
    THEN "Invalid request ID"
  ELSE ""

Donor_confirmDeath(sender, donorAddress, requestId, evidenceCID) ==
  /\ IF ConfirmDeathRequire(sender, donorAddress, requestId) # ""
       THEN /\ Revert("confirmDeath",
                      ConfirmDeathRequire(sender, donorAddress, requestId))
            /\ UNCHANGED donors
       ELSE /\ donors' = [donors EXCEPT
                 ![donorAddress].status = "Deceased",
                 ![donorAddress].deathTimestamp = now,
                 ![donorAddress].deathEvidenceCID = evidenceCID]
            /\ lastTx' = Ok("confirmDeath")
  /\ UNCHANGED <<donorOwner, oracleContract, isDonorRegistered, donorList,
                 authorizedContracts>>
  /\ UNCHANGED <<now, oracleVars, organVars, scoringVars, recipientVars>>

\* Donor.confirmDeath called in a transaction of its own
confirmDeath(sender, donorAddress, requestId, evidenceCID) ==
  /\ Donor_confirmDeath(sender, donorAddress, requestId, evidenceCID)
  /\ UNCHANGED offChainVars

\* block.timestamp advances
Tick ==
  /\ now < MaxTime
  /\ now' = now + 1
  /\ UNCHANGED <<lastTx, oracleVars, donorVars, organVars, offChainVars, scoringVars, recipientVars>>

\* ------------------------------------------------- client handlers (oracle)

\* client requestDeathVerification: the donor must be registered and Active in
\* the Donor registry, then the request goes to the oracle contract directly
ClientRequestCheck(donorAddress) ==
  IF donorAddress = ""
    THEN "Please enter a valid donor address."
  ELSE IF donorAddress \notin DonorAddrs \/ ~isDonorRegistered[donorAddress]
    THEN "Donor is not registered in the system."
  ELSE IF donors[donorAddress].status # "Active"
    THEN "Donor must be in Active status to request verification."
  ELSE ""

ClientRequestDeathVerification(account, donorAddress) ==
  IF ClientRequestCheck(donorAddress) # ""
    THEN /\ Revert("client.requestDeathVerification", ClientRequestCheck(donorAddress))
         /\ UNCHANGED <<now, oracleVars, donorVars, organVars, offChainVars, scoringVars, recipientVars>>
    ELSE requestDeathVerification(account, donorAddress)

\* ------------------------------------- OrganNFT and OrganMatching contracts
\* The Solidity source of neither contract is available; their operations are
\* modelled from the design document (sections 3, 4.2, 4.3, 6).

Recipients == {"r1", "r2"}
Hospitals == {"h1"}
OrganTypes == {"Heart", "Liver", "Kidneys"}
\* enum order used by the client: 0 Available, 1 Matched, 2 Transplanted,
\* 3 Expired, 4 Rejected
OrganStatus == <<"Available", "Matched", "Transplanted", "Expired", "Rejected">>
StatusCode(st) == CHOOSE c \in 0..4 : OrganStatus[c + 1] = st
TokenIds == 1..MaxOrgans

exists(tokenId) == tokenId \in 1..Len(organs)

OrganConstructor ==
  /\ organs = <<>>
  /\ waitingList = <<>>
  /\ proposals = <<>>
  /\ pendingTransplant = [t \in TokenIds |-> 0]

\* OrganNFT.mintOrganNFT: a new organ starts Available with nobody assigned
NFT_mintOrganNFT(donorAddress, organType, bloodType) ==
  /\ Len(organs) < MaxOrgans
  /\ organs' = Append(organs,
       [organType |-> organType, bloodType |-> bloodType,
        donorAddress |-> donorAddress, status |-> "Available",
        assignedRecipient |-> ZeroAddr, assignedHospital |-> ZeroAddr])
  /\ lastTx' = Ok("mintOrganNFT")
  /\ UNCHANGED <<waitingList, proposals, pendingTransplant>>
  /\ UNCHANGED <<now, oracleVars, donorVars, offChainVars, scoringVars, recipientVars>>

\* the active waiting-list entries of a recipient for an organ type
ActiveEntries(recipient, organType) ==
  {k \in 1..Len(waitingList) :
     /\ waitingList[k].recipient = recipient
     /\ waitingList[k].organType = organType
     /\ waitingList[k].isActive}

\* fault variant of the add precondition: nothing is refused
AddRequireNothing(recipient, organType) == ""

\* WaitingListManager.add
AddRequire(recipient, organType) ==
  IF ActiveEntries(recipient, organType) # {} THEN "DuplicateEntry" ELSE ""

Matching_addToWaitingList(recipient, organType, urgencyLevel, region, priority) ==
  /\ IF AddRequire(recipient, organType) # ""
       THEN /\ Revert("addToWaitingList", AddRequire(recipient, organType))
            /\ UNCHANGED waitingList
       ELSE /\ Len(waitingList) < MaxEntries
            /\ waitingList' = Append(waitingList,
                 [recipient |-> recipient, organType |-> organType,
                  urgencyLevel |-> urgencyLevel, region |-> region,
                  priority |-> priority, addedTimestamp |-> now,
                  isActive |-> TRUE])
            /\ lastTx' = Ok("addToWaitingList")
  /\ UNCHANGED <<organs, proposals, pendingTransplant>>
  /\ UNCHANGED <<now, oracleVars, donorVars, scoringVars, recipientVars>>

\* WaitingListManager.deactivate, as applied by an allocation
Deactivated(list, recipient, organType) ==
  [k \in 1..Len(list) |->
     IF list[k].recipient = recipient /\ list[k].organType = organType
       THEN [list[k] EXCEPT !.isActive = FALSE]
       ELSE list[k]]

\* fault variant of the allocation precondition: the organ's status is not looked at
AllocateRequireAnyStatus(tokenId, recipient) ==
  IF ActiveEntries(recipient, organs[tokenId].organType) = {}
    THEN "NotEligible: no active entry"
  ELSE ""

\* AllocationEngine.allocateOrgan: the precondition
AllocateRequire(tokenId, recipient) ==
  IF organs[tokenId].status # "Available" THEN "NotEligible: organ not Available"
  ELSE IF ActiveEntries(recipient, organs[tokenId].organType) = {}
    THEN "NotEligible: no active entry"
  ELSE ""

\* fault variant of the allocation effects: the waiting-list entry stays active
AllocateWritesKeepEntry(tokenId, recipient) ==
  /\ organs' = [organs EXCEPT ![tokenId].status = "Matched",
                              ![tokenId].assignedRecipient = recipient]
  /\ waitingList' = waitingList
  /\ proposals' = Append(proposals,
       [organ |-> tokenId, recipient |-> recipient, status |-> "Matched",
        proposalTimestamp |-> now])

\* AllocationEngine.allocateOrgan: the four effects, applied in one transaction
AllocateWrites(tokenId, recipient) ==
  /\ organs' = [organs EXCEPT ![tokenId].status = "Matched",
                              ![tokenId].assignedRecipient = recipient]
  /\ waitingList' = Deactivated(waitingList, recipient, organs[tokenId].organType)
  /\ proposals' = Append(proposals,
       [organ |-> tokenId, recipient |-> recipient, status |-> "Matched",
        proposalTimestamp |-> now])

Matching_allocateOrgan(tokenId, recipient) ==
  /\ exists(tokenId)
  /\ Len(proposals) < MaxProposals
  /\ IF AllocateRequire(tokenId, recipient) # ""
       THEN /\ Revert("allocateOrgan", AllocateRequire(tokenId, recipient))
            /\ UNCHANGED <<organs, waitingList, proposals>>
       ELSE /\ AllocateWrites(tokenId, recipient)
            /\ lastTx' = Ok("allocateOrgan")
  /\ UNCHANGED pendingTransplant
  /\ UNCHANGED <<now, oracleVars, donorVars, offChainVars, scoringVars, recipientVars>>

\* OrganNFT.matchOrgan: the organ's half of an allocation
MatchRequire(tokenId) ==
  IF organs[tokenId].status # "Available" THEN "NotEligible: organ not Available"
  ELSE ""

NFT_matchOrgan(tokenId, recipient, hospital) ==
  /\ exists(tokenId)
  /\ IF MatchRequire(tokenId) # ""
       THEN /\ Revert("matchOrgan", MatchRequire(tokenId))
            /\ UNCHANGED organs
       ELSE /\ organs' = [organs EXCEPT ![tokenId].status = "Matched",
                                        ![tokenId].assignedRecipient = recipient,
                                        ![tokenId].assignedHospital = hospital]
            /\ lastTx' = Ok("matchOrgan")
  /\ UNCHANGED <<waitingList, proposals, pendingTransplant>>
  /\ UNCHANGED <<now, oracleVars, donorVars, offChainVars, scoringVars, recipientVars>>

\* fault variant of the transplant precondition: any status is accepted
TransplantRequireAnyStatus(tokenId) == ""

\* AllocationEngine.markTransplanted
TransplantRequire(tokenId) ==
  IF organs[tokenId].status # "Matched" THEN "InvalidState: organ not Matched"
  ELSE ""

NFT_markTransplanted(tokenId) ==
  /\ exists(tokenId)
  /\ IF TransplantRequire(tokenId) # ""
       THEN /\ Revert("markTransplanted", TransplantRequire(tokenId))
            /\ UNCHANGED organs
       ELSE /\ organs' = [organs EXCEPT ![tokenId].status = "Transplanted"]
            /\ lastTx' = Ok("markTransplanted")
  /\ UNCHANGED <<waitingList, proposals>>
  /\ UNCHANGED <<now, oracleVars, donorVars, offChainVars, scoringVars, recipientVars>>

\* AllocationEngine.markExpired: Available or Matched -> Expired
ExpireRequire(tokenId) ==
  IF organs[tokenId].status \notin {"Available", "Matched"}
    THEN "InvalidState: organ not Available or Matched"
  ELSE ""

\* the proposals of a Matched organ are marked Expired
ExpiredProposals(list, tokenId) ==
  [k \in 1..Len(list) |->
     IF list[k].organ = tokenId /\ list[k].status = "Matched"
       THEN [list[k] EXCEPT !.status = "Expired"]
       ELSE list[k]]

\* fault variant of an expiry: the matched recipient's entry is reactivated
ReactivatedWaitingList(list, tokenId) ==
  [k \in 1..Len(list) |->
     IF /\ list[k].organType = organs[tokenId].organType
        /\ \E j \in 1..Len(proposals) :
              /\ proposals[j].organ = tokenId
              /\ proposals[j].status = "Matched"
              /\ proposals[j].recipient = list[k].recipient
       THEN [list[k] EXCEPT !.isActive = TRUE]
       ELSE list[k]]

\* the waiting list after an expiry: entries are not reactivated
ExpiredWaitingList(list, tokenId) == list

NFT_markExpired(tokenId) ==
  /\ exists(tokenId)
  /\ IF ExpireRequire(tokenId) # ""
       THEN /\ Revert("markExpired", ExpireRequire(tokenId))
            /\ UNCHANGED <<organs, waitingList, proposals>>
       ELSE /\ organs' = [organs EXCEPT ![tokenId].status = "Expired"]
            /\ proposals' = IF organs[tokenId].status = "Matched"
                              THEN ExpiredProposals(proposals, tokenId)
                              ELSE proposals
            /\ waitingList' = ExpiredWaitingList(waitingList, tokenId)
            /\ lastTx' = Ok("markExpired")
  /\ UNCHANGED pendingTransplant
  /\ UNCHANGED <<now, oracleVars, donorVars, offChainVars, scoringVars, recipientVars>>

\* Registry.setOrganStatus: a key-value write, last write wins
StatusWritten(tokenId, newStatus) == newStatus

NFT_updateOrganStatus(tokenId, newStatus) ==
  /\ exists(tokenId)
  /\ organs' = [organs EXCEPT ![tokenId].status = StatusWritten(tokenId, newStatus)]
  /\ lastTx' = Ok("updateOrganStatus")
  /\ UNCHANGED <<waitingList, proposals, pendingTransplant>>
  /\ UNCHANGED <<now, oracleVars, donorVars, offChainVars, scoringVars, recipientVars>>

\* no waiting-list transaction has been submitted yet
NoSubmission == <<>>

\* ------------------------------------------------- client handlers (organs)
\* A handler's early return shows an error and submits nothing.
ClientError(msg) ==
  /\ lastTx' = msg
  /\ UNCHANGED <<now, oracleVars, donorVars, organVars, offChainVars, scoringVars, recipientVars>>

ClientMintOrganNFT(donorAddress, organType, bloodType) ==
  NFT_mintOrganNFT(donorAddress, organType, bloodType)

\* client addToMatchingWaitingList: address, urgency and region are checked
\* before the transaction is sent
ClientAddCheck(recipientAddress, urgencyLevel, region) ==
  IF recipientAddress = "" THEN "Please enter a valid recipient address."
  ELSE IF urgencyLevel = 0 \/ urgencyLevel < 1 \/ urgencyLevel > 10
    THEN "Urgency level must be between 1 and 10."
  ELSE IF region = "" THEN "Please enter a region."
  ELSE ""

ClientAddToMatchingWaitingList(recipientAddress, organType, urgencyLevel, region, priority) ==
  IF ClientAddCheck(recipientAddress, urgencyLevel, region) # ""
    THEN ClientError(ClientAddCheck(recipientAddress, urgencyLevel, region))
    ELSE /\ Matching_addToWaitingList(recipientAddress, organType, urgencyLevel,
                                      region, priority)
         /\ submittedUrgency' = <<urgencyLevel>>
         /\ UNCHANGED <<matchingResults, manualTask, backendVars, serviceVars>>

\* client allocateOrgan: the token must exist, then one transaction
ClientAllocateOrgan(tokenId, recipientAddress) ==
  IF recipientAddress = "" THEN ClientError("Please enter a valid recipient address.")
  ELSE IF ~exists(tokenId) THEN ClientError("Token ID does not exist.")
  ELSE Matching_allocateOrgan(tokenId, recipientAddress)

\* client matchOrgan: the token must exist, then one transaction
ClientMatchOrgan(tokenId, recipientAddress, hospitalAddress) ==
  IF recipientAddress = "" \/ hospitalAddress = ""
    THEN ClientError("Please fill in all fields.")
  ELSE IF ~exists(tokenId) THEN ClientError("Token ID does not exist.")
  ELSE NFT_matchOrgan(tokenId, recipientAddress, hospitalAddress)

\* client markTransplanted, first half: the token must exist and the status
\* read from the chain must be 1 (Matched)
ClientTransplantCheck(tokenId) ==
  IF ~exists(tokenId) THEN "Token ID does not exist."
  ELSE IF StatusCode(organs[tokenId].status) # 1
    THEN "Organ must be matched before it can be marked as transplanted."
  ELSE ""

ClientMarkTransplantedRead(tokenId) ==
  IF ClientTransplantCheck(tokenId) # ""
    THEN ClientError(ClientTransplantCheck(tokenId))
    ELSE /\ pendingTransplant[tokenId] < MaxInFlight
         /\ pendingTransplant' = [pendingTransplant EXCEPT ![tokenId] = @ + 1]
         /\ lastTx' = "Marking organ as transplanted..."
         /\ UNCHANGED <<organs, waitingList, proposals>>
         /\ UNCHANGED <<now, oracleVars, donorVars, offChainVars, scoringVars, recipientVars>>

\* client markTransplanted, second half: the transaction is submitted
ClientMarkTransplantedSend(tokenId) ==
  /\ tokenId \in TokenIds
  /\ pendingTransplant[tokenId] > 0
  /\ pendingTransplant' = [pendingTransplant EXCEPT ![tokenId] = @ - 1]
  /\ NFT_markTransplanted(tokenId)

ClientMarkExpired(tokenId) ==
  IF ~exists(tokenId) THEN ClientError("Token ID does not exist.")
  ELSE NFT_markExpired(tokenId)

ClientUpdateOrganStatus(tokenId, newStatus) ==
  IF ~exists(tokenId) THEN ClientError("Token ID does not exist.")
  ELSE NFT_updateOrganStatus(tokenId, newStatus)

\* -------------------------------------- the other waiting-list entry points

\* Recipient.addToWaitingList(address, organType, urgency): the same add, for a
\* caller that gives neither region nor priority
Recipient_addToWaitingList(recipientAddress, organType, urgencyLevel) ==
  Matching_addToWaitingList(recipientAddress, organType, urgencyLevel, "", 0)

\* WaitingListManager.updatePriority: the active entry is changed in place
UpdatePriorityRequire(recipient, organType) ==
  IF ActiveEntries(recipient, organType) = {} THEN "NotFound" ELSE ""

Matching_updateWaitingListPriority(recipient, organType, urgencyLevel, priorityLevel, region) ==
  /\ IF UpdatePriorityRequire(recipient, organType) # ""
       THEN /\ Revert("updateWaitingListPriority",
                      UpdatePriorityRequire(recipient, organType))
            /\ UNCHANGED waitingList
       ELSE /\ waitingList' = [k \in 1..Len(waitingList) |->
                 IF k \in ActiveEntries(recipient, organType)
                   THEN [waitingList[k] EXCEPT !.urgencyLevel = urgencyLevel,
                                               !.priority = priorityLevel,
                                               !.region = region]
                   ELSE waitingList[k]]
            /\ lastTx' = Ok("updateWaitingListPriority")
  /\ UNCHANGED <<organs, proposals, pendingTransplant>>
  /\ UNCHANGED <<now, oracleVars, donorVars, scoringVars, recipientVars>>

\* the text of a form field, and parseInt of it: a one-element sequence holding
\* the number, or the empty sequence NaN for text that is not a number
NaN == <<>>
UrgencyFields == {"", "0", "5", "11", "abc"}
ParseInt(field) ==
  CASE field = "0" -> <<0>>
    [] field = "5" -> <<5>>
    [] field = "11" -> <<11>>
    [] field = "60" -> <<60>>
    [] OTHER -> NaN

\* client addToWaitingList (recipient form): only empty fields are refused
ClientAddToWaitingList(address, organType, urgency) ==
  IF address = "" \/ urgency = "" THEN ClientError("Please fill in all fields.")
  ELSE IF ParseInt(urgency) = NaN
    THEN ClientError("Failed to add to waiting list: invalid number value")
  ELSE /\ Recipient_addToWaitingList(address, organType, ParseInt(urgency)[1])
       /\ submittedUrgency' = ParseInt(urgency)
       /\ UNCHANGED <<matchingResults, manualTask, backendVars, serviceVars>>

\* client updateWaitingListPriority: address and urgency are looked at first
ClientUpdateCheck(recipientAddress, urgencyLevel) ==
  IF recipientAddress = "" THEN "Please enter a valid recipient address."
  ELSE IF urgencyLevel = NaN \/ urgencyLevel[1] = 0
    THEN "Urgency level must be between 1 and 10."
  ELSE IF urgencyLevel[1] < 1 \/ urgencyLevel[1] > 10
    THEN "Urgency level must be between 1 and 10."
  ELSE ""

ClientUpdateWaitingListPriority(recipientAddress, organType, urgency, priorityLevel, region) ==
  IF ClientUpdateCheck(recipientAddress, ParseInt(urgency)) # ""
    THEN ClientError(ClientUpdateCheck(recipientAddress, ParseInt(urgency)))
    ELSE /\ Matching_updateWaitingListPriority(recipientAddress, organType,
              ParseInt(urgency)[1], priorityLevel,
              IF region = "" THEN "default" ELSE region)
         /\ submittedUrgency' = ParseInt(urgency)
         /\ UNCHANGED <<matchingResults, manualTask, backendVars, serviceVars>>

\* ---------------------------------------------------------- backend server
\* server.js: every route awaits initializeContracts and the contract service
\* inside try, and answers from catch when either throws.

\* the callers of initializeContracts that are followed through their await
InitCallers == {"listen", "request"}

BackendStart ==
  /\ serverUp = TRUE
  /\ isInitialized = FALSE
  /\ httpResponse = <<>>
  /\ initializing = [c \in InitCallers |-> "idle"]

\* initializeContracts: contractService.initialize runs while isInitialized is
\* false and throws when the contracts are not deployed on the network
InitializeError(deployed) ==
  IF ~isInitialized /\ ~deployed
    THEN "Contracts not deployed. Please run: truffle migrate --reset"
  ELSE ""

\* fault variant of a route's catch block: the error escapes the handler, the
\* rejection is unhandled and the process exits before anything is written
RouteNoCatch(error) == [up |-> FALSE, response |-> <<>>]

\* a route's catch block: res.status(500).json({success: false, error}); the
\* error message is the sequence of its parts
RouteCatch(error) ==
  [up |-> TRUE,
   response |-> <<[status |-> 500, success |-> FALSE, error |-> error]>>]

\* the end of a route's try block: res.json({success: true, data})
RouteOk == [up |-> TRUE, response |-> <<[status |-> 200, success |-> TRUE, error |-> <<>>]>>]

\* initializeContracts threw: nothing reaches the chain
RouteInitFailed(deployed) ==
  /\ serverUp' = RouteCatch(<<InitializeError(deployed)>>).up
  /\ httpResponse' = RouteCatch(<<InitializeError(deployed)>>).response
  /\ UNCHANGED <<isInitialized, initializing, clientVars, serviceVars>>
  /\ UNCHANGED <<now, lastTx, oracleVars, donorVars, organVars, scoringVars, recipientVars>>

\* what the contract service returns for a transaction, field by field: the
\* hash is a string, blockNumber and gasUsed are bigints
Receipt == [transactionHash |-> "string", blockNumber |-> "bigint", gasUsed |-> "bigint"]

\* stringifyBigInts: every bigint of the object becomes its decimal string
stringifyBigInts(obj) ==
  [k \in DOMAIN obj |-> IF obj[k] = "bigint" THEN "string" ELSE obj[k]]

\* JSON.stringify inside res.json throws a TypeError on a bigint
JsonError(data) ==
  IF \E k \in DOMAIN data : data[k] = "bigint"
    THEN "Do not know how to serialize a BigInt"
  ELSE ""

\* res.json({success: true, data}) at the end of a route's try block: when
\* the body cannot be serialized the TypeError reaches the catch block
RouteSend(data) ==
  IF JsonError(data) # "" THEN RouteCatch(<<JsonError(data)>>) ELSE RouteOk

\* the response after the contract service returned or threw; the service
\* wraps the transaction's error message
RouteAnswer(prefix, data) ==
  /\ serverUp' = (IF lastTx' = "ok" THEN RouteSend(data)
                  ELSE RouteCatch(<<prefix, lastTx'>>)).up
  /\ httpResponse' = (IF lastTx' = "ok" THEN RouteSend(data)
                      ELSE RouteCatch(<<prefix, lastTx'>>)).response
  /\ isInitialized' = TRUE
  /\ UNCHANGED <<initializing, serviceVars>>

\* contractService.registerRecipient: the transaction goes to the Recipient
\* contract, which stores the record or rejects the call
registerRecipient(recipientAddress, accepted) ==
  /\ IF ~accepted
       THEN /\ Revert("registerRecipient", "Registration rejected")
            /\ UNCHANGED registeredRecipients
       ELSE /\ registeredRecipients' = registeredRecipients \cup {recipientAddress}
            /\ lastTx' = Ok("registerRecipient")
  /\ UNCHANGED <<now, oracleVars, donorVars, organVars, scoringVars>>

\* POST /api/recipient/register: the receipt is passed to res.json as the
\* contract service returned it
BackendRegisterRecipient(deployed, recipientAddress, accepted) ==
  /\ serverUp
  /\ IF InitializeError(deployed) # ""
       THEN RouteInitFailed(deployed)
       ELSE /\ registerRecipient(recipientAddress, accepted)
            /\ RouteAnswer("Register recipient failed", Receipt)
            /\ UNCHANGED clientVars

\* app.listen's callback enters initializeContracts: contractService.initialize
\* is called when isInitialized is false
AppListen ==
  /\ initializing["listen"] = "idle"
  /\ initializing' = [initializing EXCEPT
       !["listen"] = IF isInitialized THEN "done" ELSE "running"]
  /\ UNCHANGED <<serverUp, isInitialized, httpResponse, clientVars, serviceVars>>
  /\ UNCHANGED <<now, lastTx, oracleVars, donorVars, organVars, scoringVars, recipientVars>>

\* the callback's initialize() settles: the flag is set on success, a failure
\* is logged
AppListenInitialized(deployed) ==
  /\ initializing["listen"] = "running"
  /\ initializing' = [initializing EXCEPT !["listen"] = "done"]
  /\ isInitialized' = (isInitialized \/ deployed)
  /\ UNCHANGED <<serverUp, httpResponse, clientVars, serviceVars>>
  /\ UNCHANGED <<now, lastTx, oracleVars, donorVars, organVars, scoringVars, recipientVars>>

\* GET /api/account enters initializeContracts: with isInitialized set the
\* account info is answered at once, otherwise contractService.initialize is
\* called and awaited
BackendAccountInfo ==
  /\ serverUp
  /\ initializing["request"] = "idle"
  /\ IF isInitialized
       THEN /\ serverUp' = RouteSend(stringifyBigInts([address |-> "string", balance |-> "string"])).up
            /\ httpResponse' = RouteSend(stringifyBigInts([address |-> "string", balance |-> "string"])).response
            /\ UNCHANGED initializing
       ELSE /\ initializing' = [initializing EXCEPT !["request"] = "running"]
            /\ UNCHANGED <<serverUp, httpResponse>>
  /\ UNCHANGED <<isInitialized, clientVars, serviceVars>>
  /\ UNCHANGED <<now, lastTx, oracleVars, donorVars, organVars, scoringVars, recipientVars>>

\* the request's initialize() settles: the flag is set and the account info
\* answered, or the error is answered from the catch block
BackendAccountInfoInitialized(deployed) ==
  /\ initializing["request"] = "running"
  /\ initializing' = [initializing EXCEPT !["request"] = "idle"]
  /\ isInitialized' = (isInitialized \/ deployed)
  /\ serverUp' = (IF deployed THEN RouteSend(stringifyBigInts([address |-> "string", balance |-> "string"]))
                  ELSE RouteCatch(<<"Contracts not deployed. Please run: truffle migrate --reset">>)).up
  /\ httpResponse' = (IF deployed THEN RouteSend(stringifyBigInts([address |-> "string", balance |-> "string"]))
                      ELSE RouteCatch(<<"Contracts not deployed. Please run: truffle migrate --reset">>)).response
  /\ UNCHANGED <<clientVars, serviceVars>>
  /\ UNCHANGED <<now, lastTx, oracleVars, donorVars, organVars, scoringVars, recipientVars>>

\* POST /api/donor/register
BackendRegisterDonor(deployed, account, donorAddress, name, age, bloodType) ==
  /\ serverUp
  /\ IF InitializeError(deployed) # ""
       THEN RouteInitFailed(deployed)
       ELSE /\ Donor_registerDonor(account, donorAddress, name, age, bloodType)
            /\ RouteAnswer("Register donor failed", stringifyBigInts(Receipt))
            /\ UNCHANGED clientVars

\* POST /api/recipient/waiting-list/add: the body's fields go to the contract
\* service as they came
BackendAddToWaitingList(deployed, recipientAddress, organType, urgencyLevel) ==
  /\ serverUp
  /\ IF InitializeError(deployed) # ""
       THEN RouteInitFailed(deployed)
       ELSE /\ Recipient_addToWaitingList(recipientAddress, organType, urgencyLevel)
            /\ RouteAnswer("Add to waiting list failed", stringifyBigInts(Receipt))
            /\ submittedUrgency' = <<urgencyLevel>>
            /\ UNCHANGED <<matchingResults, manualTask>>

\* ------------------------------------------------- the prioritized queue

\* getWaitingListByOrgan: the raw queue of an organ type and region, in
\* insertion order
Queue(list, organType, region) ==
  SelectSeq(list, LAMBDA e : e.organType = organType /\ e.region = region)

\* fault variant of the ordering: urgency is compared before priority
BeforeUrgencyFirst(a, b) ==
  \/ a.urgencyLevel > b.urgencyLevel
  \/ a.urgencyLevel = b.urgencyLevel /\ a.priority > b.priority
  \/ /\ a.urgencyLevel = b.urgencyLevel
     /\ a.priority = b.priority
     /\ a.addedTimestamp < b.addedTimestamp

\* the composite key: priority descending, then urgencyLevel descending, then
\* addedTimestamp ascending
Before(a, b) ==
  \/ a.priority > b.priority
  \/ a.priority = b.priority /\ a.urgencyLevel > b.urgencyLevel
  \/ /\ a.priority = b.priority
     /\ a.urgencyLevel = b.urgencyLevel
     /\ a.addedTimestamp < b.addedTimestamp

\* e is placed in front of the first entry it comes before, so entries with
\* equal keys stay in the order they were inserted
RECURSIVE InsertSorted(_, _)
InsertSorted(sorted, e) ==
  IF sorted = <<>> THEN <<e>>
  ELSE IF Before(e, Head(sorted)) THEN <<e>> \o sorted
  ELSE <<Head(sorted)>> \o InsertSorted(Tail(sorted), e)

RECURSIVE SortQueue(_, _)
SortQueue(sorted, rest) ==
  IF rest = <<>> THEN sorted
  ELSE SortQueue(InsertSorted(sorted, Head(rest)), Tail(rest))

\* WaitingListManager.prioritize
prioritizeByUrgency(organType, region) ==
  SortQueue(<<>>, Queue(waitingList, organType, region))

\* no manual fulfilment under way
NoManualTask == [requestId |-> 0, donorAddress |-> "", account |-> ""]

\* nothing shown yet
NoResults == [kind |-> "none"]

\* client getWaitingList: the rows are shown in the order received
ClientGetWaitingList(organType, region) ==
  /\ matchingResults' =
       [kind |-> "waitingList", organType |-> organType,
        region |-> IF region = "" THEN "default" ELSE region,
        rows |-> Queue(waitingList, organType,
                       IF region = "" THEN "default" ELSE region)]
  /\ lastTx' = "Found recipients in waiting list."
  /\ UNCHANGED <<submittedUrgency, manualTask, backendVars, serviceVars>>
  /\ UNCHANGED <<now, oracleVars, donorVars, organVars, scoringVars, recipientVars>>

\* client getPrioritizedWaitingList: the rows are shown in the order received
ClientGetPrioritizedWaitingList(organType, region) ==
  /\ matchingResults' =
       [kind |-> "prioritized", organType |-> organType,
        region |-> IF region = "" THEN "default" ELSE region,
        rows |-> prioritizeByUrgency(organType,
                                     IF region = "" THEN "default" ELSE region)]
  /\ lastTx' = "Found recipients in prioritized list."
  /\ UNCHANGED <<submittedUrgency, manualTask, backendVars, serviceVars>>
  /\ UNCHANGED <<now, oracleVars, donorVars, organVars, scoringVars, recipientVars>>

\* ------------------------------------------------------- the match score

BloodTypes == {"O-", "O+", "A-", "A+", "B-", "B+", "AB-", "AB+"}

compatibilityMap ==
  [d \in BloodTypes |->
     CASE d = "O-" -> BloodTypes
       [] d = "O+" -> {"O+", "A+", "B+", "AB+"}
       [] d = "A-" -> {"A-", "A+", "AB-", "AB+"}
       [] d = "A+" -> {"A+", "AB+"}
       [] d = "B-" -> {"B-", "B+", "AB-", "AB+"}
       [] d = "B+" -> {"B+", "AB+"}
       [] d = "AB-" -> {"AB-", "AB+"}
       [] d = "AB+" -> {"AB+"}]

\* fault variant of the lookup: the Rh-negative rows are looked up as if they
\* were the Rh-positive rows' recipients only
CompatibleListedPositive(donorBlood, recipientBlood) ==
  /\ donorBlood \in BloodTypes
  /\ recipientBlood \in compatibilityMap[donorBlood]
  /\ recipientBlood \in {"O+", "A+", "B+", "AB+"}

\* compatibilityMap[donorBlood]?.includes(recipientBlood) || false
CompatibleListed(donorBlood, recipientBlood) ==
  /\ donorBlood \in BloodTypes
  /\ recipientBlood \in compatibilityMap[donorBlood]

\* client checkBloodCompatibility: universal donor, universal recipient, exact
\* match, then the lookup
checkBloodCompatibility(donorBlood, recipientBlood) ==
  IF donorBlood = "O-" THEN TRUE
  ELSE IF recipientBlood = "AB+" THEN TRUE
  ELSE IF donorBlood = recipientBlood THEN TRUE
  ELSE CompatibleListed(donorBlood, recipientBlood)

\* client checkCompatibility, basic check: the two blood types read from the
\* organ metadata and the recipient record, and the badge shown
ClientBasicCompatibilityCheck(donorBlood, recipientBlood) ==
  /\ matchingResults' =
       [kind |-> "compatibility", donorBlood |-> donorBlood,
        recipientBlood |-> recipientBlood,
        isBloodCompatible |-> checkBloodCompatibility(donorBlood, recipientBlood)]
  /\ lastTx' = "Basic compatibility check completed."
  /\ UNCHANGED <<submittedUrgency, manualTask, backendVars, serviceVars>>
  /\ UNCHANGED <<now, oracleVars, donorVars, organVars, scoringVars, recipientVars>>

\* the scoring weights by parameter name, and their baseline
ScoringParameters == {"blood", "urgency", "waitingTime", "geographic", "medical"}
DefaultWeights ==
  [blood |-> 30, urgency |-> 25, waitingTime |-> 20, geographic |-> 15, medical |-> 10]

\* the wait after which the waiting-time score is saturated, and the least
\* total score of a compatible pair
MaxWait == 2
minimumScoreThreshold == 50

\* the recipient registry's blood types, read by the scorer
RecipientBloodType(recipient) == IF recipient = "r1" THEN "A+" ELSE "O-"

Min(a, b) == IF a < b THEN a ELSE b

\* the recipient's entry the scorer reads: the first active one for the
\* organ's type, if any
ScoredEntry(tokenId, recipient) ==
  IF ActiveEntries(recipient, organs[tokenId].organType) = {} THEN <<>>
  ELSE <<waitingList[CHOOSE k \in ActiveEntries(recipient, organs[tokenId].organType) :
           \A j \in ActiveEntries(recipient, organs[tokenId].organType) : k <= j]>>

\* CompatibilityScorer: the five weighted components
BloodScore(tokenId, recipient) ==
  IF checkBloodCompatibility(organs[tokenId].bloodType, RecipientBloodType(recipient))
    THEN scoringWeights["blood"] ELSE 0
UrgencyScore(entry) ==
  IF entry = <<>> THEN 0 ELSE (entry[1].urgencyLevel * scoringWeights["urgency"]) \div 10
WaitingTimeScore(entry) ==
  IF entry = <<>> THEN 0
  ELSE (Min(now - entry[1].addedTimestamp, MaxWait) * scoringWeights["waitingTime"])
         \div MaxWait
GeographicScore(tokenId, entry) ==
  \* organs are offered in region "X"
  IF entry # <<>> /\ entry[1].region = "X"
    THEN scoringWeights["geographic"] ELSE 0
MedicalScore(tokenId) ==
  \* the quality data of hearts is validated, that of other organs is not
  IF organs[tokenId].organType = "Heart" THEN scoringWeights["medical"]
  ELSE scoringWeights["medical"] \div 2

ComponentSum(tokenId, recipient) ==
  BloodScore(tokenId, recipient) + UrgencyScore(ScoredEntry(tokenId, recipient))
  + WaitingTimeScore(ScoredEntry(tokenId, recipient))
  + GeographicScore(tokenId, ScoredEntry(tokenId, recipient)) + MedicalScore(tokenId)

\* OrganMatching.calculateMatchScore: the components sum to totalScore, capped
\* at 100
Matching_calculateMatchScore(tokenId, recipient) ==
  [totalScore |-> Min(ComponentSum(tokenId, recipient), 100),
   bloodCompatibility |-> BloodScore(tokenId, recipient),
   urgencyScore |-> UrgencyScore(ScoredEntry(tokenId, recipient)),
   waitingTimeScore |-> WaitingTimeScore(ScoredEntry(tokenId, recipient)),
   geographicScore |-> GeographicScore(tokenId, ScoredEntry(tokenId, recipient)),
   medicalScore |-> MedicalScore(tokenId),
   isCompatible |->
     /\ checkBloodCompatibility(organs[tokenId].bloodType, RecipientBloodType(recipient))
     /\ Min(ComponentSum(tokenId, recipient), 100) >= minimumScoreThreshold]

\* OrganMatching.updateScoringWeight: each weight is set on its own
Matching_updateScoringWeight(parameter, weight) ==
  /\ IF parameter \notin ScoringParameters
       THEN /\ Revert("updateScoringWeight", "InvalidInput")
            /\ UNCHANGED scoringWeights
       ELSE /\ scoringWeights' = [scoringWeights EXCEPT ![parameter] = weight]
            /\ lastTx' = Ok("updateScoringWeight")
  /\ UNCHANGED <<now, oracleVars, donorVars, organVars, recipientVars>>

\* client updateScoringWeight: a parameter and a number are required, the
\* number itself is not checked
WeightFields == {"", "0", "60", "abc"}
ClientUpdateScoringWeight(parameter, weight) ==
  IF parameter = "" THEN ClientError("Please select a parameter.")
  ELSE IF ParseInt(weight) = NaN THEN ClientError("Please enter a weight value.")
  ELSE /\ Matching_updateScoringWeight(parameter, ParseInt(weight)[1])
       /\ UNCHANGED offChainVars

\* client calculateMatchScore: token id and address are checked, the token
\* must exist, then the score returned by the call is shown
ClientCalculateMatchScore(tokenId, recipientAddress) ==
  IF tokenId = NaN THEN ClientError("Please enter a valid token ID.")
  ELSE IF recipientAddress = "" THEN ClientError("Please enter a valid recipient address.")
  ELSE IF ~exists(tokenId[1]) THEN ClientError("Token ID does not exist.")
  ELSE /\ matchingResults' =
            [kind |-> "score", tokenId |-> tokenId[1], recipient |-> recipientAddress,
             score |-> Matching_calculateMatchScore(tokenId[1], recipientAddress)]
       /\ lastTx' = "Match score calculated successfully!"
       /\ UNCHANGED <<submittedUrgency, manualTask, backendVars, serviceVars>>
       /\ UNCHANGED <<now, oracleVars, donorVars, organVars, scoringVars, recipientVars>>

\* client checkVerificationStatus: the oracle's getDeathVerification and the
\* registry's getDonorDeathInfo are called, and the panel shows both; when a
\* call reverts the panel is hidden
ClientCheckVerificationStatus(donorAddress) ==
  IF donorAddress = "" THEN ClientError("Please enter a valid donor address.")
  ELSE /\ IF ~isDonorRegistered[donorAddress]
            THEN /\ matchingResults' = NoResults
                 /\ lastTx' = "Failed to check verification status: Donor not registered"
            ELSE /\ matchingResults' =
                      [kind |-> "verification", donorAddress |-> donorAddress,
                       isVerified |-> getDeathVerification(donorAddress)[1],
                       isDeceased |-> getDeathVerification(donorAddress)[2],
                       evidenceCID |-> getDeathVerification(donorAddress)[3],
                       requestId |-> donors[donorAddress].deathVerificationRequestId,
                       deathTimestamp |-> donors[donorAddress].deathTimestamp]
                 /\ lastTx' = "Verification status retrieved successfully!"
       /\ UNCHANGED <<submittedUrgency, manualTask, backendVars, serviceVars>>
       /\ UNCHANGED <<now, oracleVars, donorVars, organVars, scoringVars, recipientVars>>

\* ------------------------------------------------------ the oracle service

Deliveries == {"event", "poll"}
IdleTask == [pc |-> "idle", requestId |-> 0, donorAddress |-> "", isDeceased |-> FALSE, source |-> ""]

ServiceStart ==
  /\ processedRequests = {}
  /\ eventsSeen = {}
  /\ tasks = [d \in Deliveries |-> IdleTask]
  /\ deathChecks = [i \in 1..MaxRequests |-> 0]
  /\ fulfilSends = [i \in 1..MaxRequests |-> 0]

\* CONFIG.oracleAccount: the owner account of the deployment
oracleAccount == OwnerAcct

\* the chain, the clock, the client and the backend are left alone
ServiceFrame ==
  /\ UNCHANGED <<now, lastTx, oracleVars, donorVars, organVars, scoringVars, recipientVars>>
  /\ UNCHANGED <<clientVars, backendVars, useMockAPI>>

\* processRequest up to its first await: nothing for a processed request, the
\* catch block when getDonorInfo reverts, otherwise the death check is next
processRequest(d, requestId) ==
  tasks' = [tasks EXCEPT ![d] =
    IF requestId \in processedRequests \/ ~isDonorRegistered[RequestAt(requestId).donorAddress]
      THEN IdleTask
    ELSE [pc |-> "verify", requestId |-> requestId,
          donorAddress |-> RequestAt(requestId).donorAddress,
          isDeceased |-> FALSE, source |-> ""]]

\* listenForEvents: the OracleRequest event of a request arrives once
ListenForEvents(requestId) ==
  /\ requestId \in 1..(requestIdCounter - 1)
  /\ requestId \notin eventsSeen
  /\ tasks["event"].pc = "idle"
  /\ eventsSeen' = eventsSeen \cup {requestId}
  /\ processRequest("event", requestId)
  /\ UNCHANGED <<processedRequests, deathChecks, fulfilSends>>
  /\ ServiceFrame

\* pollPendingRequests: a pending request not in processedRequests is
\* processed; the next poll starts only after this one's processRequest ended
PollPendingRequests(requestId) ==
  /\ tasks["poll"].pc = "idle"
  /\ requestId \in getPendingRequests
  /\ requestId \notin processedRequests
  /\ deathChecks[requestId] < MaxChecks
  /\ processRequest("poll", requestId)
  /\ UNCHANGED <<processedRequests, eventsSeen, deathChecks, fulfilSends>>
  /\ ServiceFrame

\* where the verdict comes from: mockDeathVerification, the API's answer, or
\* mockDeathVerification again when the API call failed
VerificationSource(apiUp) ==
  IF useMockAPI THEN "mock" ELSE IF apiUp THEN "api" ELSE "fallback"

\* the death check of processRequest: the verdict is Math.random's or the
\* API's
DeathVerification(d, apiUp, verdict) ==
  /\ tasks[d].pc = "verify"
  /\ deathChecks' = [deathChecks EXCEPT ![tasks[d].requestId] = @ + 1]
  /\ tasks' = [tasks EXCEPT ![d] =
       [@ EXCEPT !.pc = "estimateGas", !.isDeceased = verdict,
                 !.source = VerificationSource(apiUp)]]
  /\ UNCHANGED <<processedRequests, eventsSeen, fulfilSends>>
  /\ ServiceFrame

\* fault variant of fulfillRequest's estimateGas: a request whose fulfilment
\* cannot be sent is recorded as processed all the same
FulfillEstimateGasRecordsFailure(d) ==
  /\ tasks[d].pc = "estimateGas"
  /\ tasks' = [tasks EXCEPT ![d] =
       IF FulfillRequire(oracleAccount, tasks[d].requestId) # "" THEN IdleTask
       ELSE [@ EXCEPT !.pc = "send"]]
  /\ processedRequests' =
       IF FulfillRequire(oracleAccount, tasks[d].requestId) # ""
         THEN processedRequests \cup {tasks[d].requestId}
       ELSE processedRequests
  /\ UNCHANGED <<eventsSeen, deathChecks, fulfilSends>>
  /\ ServiceFrame

\* fulfillRequest, estimateGas: the call is simulated and throws when the
\* transaction would revert
FulfillEstimateGas(d) ==
  /\ tasks[d].pc = "estimateGas"
  /\ tasks' = [tasks EXCEPT ![d] =
       IF FulfillRequire(oracleAccount, tasks[d].requestId) # "" THEN IdleTask
       ELSE [@ EXCEPT !.pc = "send"]]
  /\ UNCHANGED <<processedRequests, eventsSeen, deathChecks, fulfilSends>>
  /\ ServiceFrame

\* fault variant of fulfillRequest's send: the transaction's error is
\* swallowed and the donor update follows whatever the outcome
FulfillSendAlwaysUpdate(d) ==
  /\ tasks[d].pc = "send"
  /\ fulfilSends' = [fulfilSends EXCEPT ![tasks[d].requestId] = @ + 1]
  /\ Oracle_fulfillDeathVerification(oracleAccount, tasks[d].requestId,
                                     tasks[d].isDeceased, CidFor(tasks[d].isDeceased))
  /\ tasks' = [tasks EXCEPT ![d] = [@ EXCEPT !.pc = "updateDonor"]]
  /\ UNCHANGED <<processedRequests, eventsSeen, deathChecks>>
  /\ UNCHANGED <<clientVars, backendVars, useMockAPI>>

\* fulfillRequest, send: the transaction is submitted; when it reverts the
\* error reaches processRequest's catch block, otherwise a deceased donor is
\* updated next and an alive one's request is done
FulfillSend(d) ==
  /\ tasks[d].pc = "send"
  /\ fulfilSends' = [fulfilSends EXCEPT ![tasks[d].requestId] = @ + 1]
  /\ Oracle_fulfillDeathVerification(oracleAccount, tasks[d].requestId,
                                     tasks[d].isDeceased, CidFor(tasks[d].isDeceased))
  /\ tasks' = [tasks EXCEPT ![d] =
       IF lastTx' = "ok" /\ tasks[d].isDeceased THEN [@ EXCEPT !.pc = "updateDonor"]
       ELSE IdleTask]
  /\ processedRequests' =
       IF lastTx' = "ok" /\ ~tasks[d].isDeceased
         THEN processedRequests \cup {tasks[d].requestId}
       ELSE processedRequests
  /\ UNCHANGED <<eventsSeen, deathChecks>>
  /\ UNCHANGED <<clientVars, backendVars, useMockAPI>>

\* updateDonorStatus: confirmDeath is sent, its failure is logged only, and
\* the request joins processedRequests
UpdateDonorStatus(d) ==
  /\ tasks[d].pc = "updateDonor"
  /\ Donor_confirmDeath(oracleAccount, tasks[d].donorAddress, tasks[d].requestId,
                        CidFor(tasks[d].isDeceased))
  /\ tasks' = [tasks EXCEPT ![d] = IdleTask]
  /\ processedRequests' = processedRequests \cup {tasks[d].requestId}
  /\ UNCHANGED <<eventsSeen, deathChecks, fulfilSends>>
  /\ UNCHANGED <<clientVars, backendVars, useMockAPI>>

\* client manualFulfillRequest, the checks before anything is sent: the id
\* field, then the request read back from the oracle
ClientManualCheck(requestId) ==
  IF requestId < 1 THEN "Please enter a valid request ID."
  ELSE IF RequestAt(requestId).requestId = 0 THEN "Request not found."
  ELSE IF RequestAt(requestId).fulfilled THEN "Request already fulfilled."
  ELSE ""

\* client manualFulfillRequest up to the fulfilment transaction: when it
\* reverts the outer catch shows the failure and nothing else is sent; when it
\* succeeds with isDeceased the handler goes on to the donor registry
ClientManualFulfillRequest(account, requestId, isDeceased) ==
  /\ manualTask = NoManualTask
  /\ IF ClientManualCheck(requestId) # ""
       THEN /\ Revert("client.manualFulfillRequest", ClientManualCheck(requestId))
            /\ UNCHANGED <<now, oracleVars, donorVars, organVars, scoringVars,
                           recipientVars, manualTask>>
       ELSE /\ Oracle_fulfillDeathVerification(account, requestId, isDeceased,
                                               CidFor(isDeceased))
            /\ manualTask' =
                 IF lastTx' = "ok" /\ isDeceased
                   THEN [requestId |-> requestId,
                         donorAddress |-> RequestAt(requestId).donorAddress,
                         account |-> account]
                 ELSE NoManualTask
  /\ UNCHANGED <<submittedUrgency, matchingResults, backendVars, serviceVars>>

\* client manualFulfillRequest, the donor update: confirmDeath is sent for the
\* request just fulfilled and its failure is a console warning only
ClientManualConfirmDeath ==
  /\ manualTask # NoManualTask
  /\ Donor_confirmDeath(manualTask.account, manualTask.donorAddress,
                        manualTask.requestId, CidFor(TRUE))
  /\ manualTask' = NoManualTask
  /\ UNCHANGED <<submittedUrgency, matchingResults, backendVars, serviceVars>>

\* state of the client, the backend and the oracle service when they start
OffChainStart ==
  /\ submittedUrgency = NoSubmission
  /\ matchingResults = NoResults
  /\ manualTask = NoManualTask
  /\ BackendStart
  /\ ServiceStart

\* ------------------------------------------------------------ specification
Init ==
  /\ now = 1
  /\ lastTx = Ok("constructor")
  /\ OracleConstructor
  /\ DonorConstructor
  /\ OrganConstructor
  /\ OffChainStart
  /\ registeredRecipients = {}
  /\ useMockAPI = TRUE
  /\ scoringWeights = DefaultWeights

\* the signatures a caller can present for a call: its own over the call's
\* message, its own over another message, another account's, a malformed one
SigInputs(a, i, b, c) ==
  {[signer |-> a, hash |-> MessageHash(i, b, c)],
   [signer |-> a, hash |-> MessageHash(i, ~b, c)],
   [signer |-> OtherAcct, hash |-> MessageHash(i, b, c)],
   BadLengthSig}

\* transactions sent to the OrganOracle contract by the owner, the backup
\* operator and an unauthorized account
OracleNext ==
  \/ \E a \in {OwnerAcct, OtherAcct}, o \in {ZeroAddr, BackupAcct}, b \in BOOLEAN :
        setOracleAuthorization(a, o, b)
  \/ \E d \in DonorAddrs \cup {ZeroAddr} : requestDeathVerification(OtherAcct, d)
  \/ \E a \in {OwnerAcct, BackupAcct}, i \in 0..MaxRequests, b \in BOOLEAN :
        fulfillDeathVerification(a, i, b, CidFor(b))
  \/ \E a \in {OwnerAcct, BackupAcct}, i \in 1..MaxRequests, b \in BOOLEAN :
        \E sg \in SigInputs(a, i, b, CidFor(b)) :
           fulfillWithSignature(a, i, b, CidFor(b), sg)

SpecOracle == Init /\ [][OracleNext]_vars

\* the same transactions with block time advancing between them
OracleClockNext == OracleNext \/ Tick

SpecOracleClock == Init /\ [][OracleClockNext]_vars

\* transactions sent to the Donor registry, with the oracle transactions that
\* its death-confirmation flow goes through
DonorNext ==
  \/ \E a \in {OwnerAcct, OtherAcct}, d \in DonorAddrs, g \in {17, 18} :
        registerDonor(a, d, "Ann", g, "O-")
  \/ \E a \in {OwnerAcct, OtherAcct}, d \in DonorAddrs, st \in DonorStatus :
        updateDonorStatus(a, d, st)
  \/ \E c \in {ZeroAddr, OracleAddr} : setOracleContract(OwnerAcct, c)
  \/ \E d \in DonorAddrs : Donor_requestDeathVerification(OwnerAcct, d)
  \/ \E d \in DonorAddrs \cup {""} : ClientRequestDeathVerification(OwnerAcct, d)
  \/ \E a \in {OwnerAcct, OtherAcct}, i \in 0..MaxRequests, b \in BOOLEAN :
        fulfillDeathVerification(a, i, b, CidFor(b))
  \/ \E a \in {OwnerAcct, OtherAcct}, d \in DonorAddrs, i \in 0..MaxRequests :
        confirmDeath(a, d, i, "QmEvidence")

SpecDonor == Init /\ [][DonorNext]_vars

\* the client's organ and matching handlers
OrganNext ==
  \/ \E t \in {"Heart", "Liver"} : ClientMintOrganNFT("d1", t, "O-")
  \/ \E r \in Recipients, t \in {"Heart", "Liver"}, u \in {5, 11} :
        ClientAddToMatchingWaitingList(r, t, u, "X", 1)
  \/ \E o \in 1..(MaxOrgans + 1), r \in Recipients : ClientAllocateOrgan(o, r)
  \/ \E o \in TokenIds, r \in Recipients, h \in Hospitals : ClientMatchOrgan(o, r, h)
  \/ \E o \in TokenIds : ClientMarkTransplantedRead(o)
  \/ \E o \in TokenIds : ClientMarkTransplantedSend(o)
  \/ \E o \in TokenIds : ClientMarkExpired(o)
  \/ \E o \in TokenIds, c \in 1..5 : ClientUpdateOrganStatus(o, OrganStatus[c])

SpecOrgan == Init /\ [][OrganNext]_vars

Next == OracleNext \/ DonorNext \/ OrganNext \/ Tick

Spec == Init /\ [][Next]_vars

\* allocation calls only: organs are minted, recipients join the waiting list,
\* and organs are allocated through either path the client exposes
AllocNext ==
  \/ \E t \in {"Heart", "Liver"} : ClientMintOrganNFT("d1", t, "O-")
  \/ \E r \in Recipients, t \in {"Heart", "Liver"}, u \in {5, 11} :
        ClientAddToMatchingWaitingList(r, t, u, "X", 1)
  \/ \E o \in 1..(MaxOrgans + 1), r \in Recipients : ClientAllocateOrgan(o, r)
  \/ \E o \in TokenIds, r \in Recipients, h \in Hospitals : ClientMatchOrgan(o, r, h)

SpecAlloc == Init /\ [][AllocNext]_vars

\* every way onto the waiting list, with allocation to deactivate entries
WaitingNext ==
  \/ \E t \in {"Heart", "Liver"} : ClientMintOrganNFT("d1", t, "O-")
  \/ \E o \in TokenIds, r \in Recipients : ClientAllocateOrgan(o, r)
  \/ \E r \in Recipients, t \in {"Heart", "Liver"}, u \in {5, 11} :
        ClientAddToMatchingWaitingList(r, t, u, "X", 1)
  \/ \E r \in {"r1", ""}, f \in {"", "5", "11", "abc"} :
        ClientAddToWaitingList(r, "Heart", f)
  \/ \E dep \in BOOLEAN, r \in Recipients, u \in {0, 5} :
        BackendAddToWaitingList(dep, r, "Heart", u)
  \/ \E f \in {"5", "11", "abc"} :
        ClientUpdateWaitingListPriority("r1", "Heart", f, 2, "")

SpecWaiting == Init /\ [][WaitingNext]_vars

\* requests to the backend, from a backend whose account is or is not the
\* owner of the Donor contract, before and after the contracts are deployed
BackendNext ==
  \/ \E dep \in BOOLEAN, a \in {OwnerAcct, OtherAcct}, d \in DonorAddrs, g \in {17, 18} :
        BackendRegisterDonor(dep, a, d, "Ann", g, "O-")
  \/ \E dep \in BOOLEAN, r \in Recipients, u \in {5, 11} :
        BackendAddToWaitingList(dep, r, "Heart", u)
  \/ \E dep \in BOOLEAN, r \in Recipients, ok \in BOOLEAN :
        BackendRegisterRecipient(dep, r, ok)

SpecBackend == Init /\ [][BackendNext]_vars

\* the server starting while requests arrive
StartNext ==
  \/ AppListen
  \/ \E dep \in BOOLEAN : AppListenInitialized(dep)
  \/ BackendAccountInfo
  \/ \E dep \in BOOLEAN : BackendAccountInfoInitialized(dep)
  \/ BackendNext

SpecStart == Init /\ [][StartNext]_vars

\* waiting lists of up to MaxQueue entries as adds, priority updates and
\* allocations leave them: one entry per recipient, added no earlier than the
\* entry before it
MaxQueue == 3
QueueRecipients == <<"r1", "r2", "r3", "r4">>
QueueEntries(k) ==
  [recipient : {QueueRecipients[k]}, organType : {"Heart"},
   urgencyLevel : {5, 7}, region : {"X"}, priority : {1, 2},
   addedTimestamp : 1..MaxTime, isActive : {TRUE}]
QueueInputs ==
  UNION {{q \in [1..n -> UNION {QueueEntries(k) : k \in 1..n}] :
            /\ \A k \in 1..n : q[k] \in QueueEntries(k)
            /\ \A k \in 1..(n - 1) : q[k].addedTimestamp <= q[k + 1].addedTimestamp}
         : n \in 0..MaxQueue}

InitPrioritize ==
  /\ now = MaxTime
  /\ lastTx = Ok("constructor")
  /\ OracleConstructor
  /\ DonorConstructor
  /\ organs = <<>>
  /\ proposals = <<>>
  /\ pendingTransplant = [t \in TokenIds |-> 0]
  /\ waitingList \in QueueInputs
  /\ OffChainStart
  /\ registeredRecipients = {}
  /\ useMockAPI = TRUE
  /\ scoringWeights = DefaultWeights

PrioritizeNext ==
  \/ \E t \in {"Heart", "Liver"}, reg \in {"X", ""} : ClientGetWaitingList(t, reg)
  \/ \E t \in {"Heart", "Liver"}, reg \in {"X", ""} :
        ClientGetPrioritizedWaitingList(t, reg)

SpecPrioritize == InitPrioritize /\ [][PrioritizeNext]_vars

\* blood types as the registries hold them: free text, the eight types among it
BloodInputs == BloodTypes \cup {"", "AB"}

BloodNext ==
  \E d \in BloodInputs, r \in BloodInputs : ClientBasicCompatibilityCheck(d, r)

SpecBlood == Init /\ [][BloodNext]_vars

\* one organ minted and a waiting list of up to two entries added at time 1
ScoredQueues ==
  {q \in QueueInputs :
     Len(q) < MaxQueue /\ \A k \in 1..Len(q) : q[k].addedTimestamp = 1}
ScoredOrgans ==
  [organType : {"Heart", "Liver"}, bloodType : {"O-", "B+"}, donorAddress : {"d1"},
   status : {"Available"}, assignedRecipient : {ZeroAddr}, assignedHospital : {ZeroAddr}]

InitScored ==
  /\ now = 1
  /\ lastTx = Ok("constructor")
  /\ OracleConstructor
  /\ DonorConstructor
  /\ \E o \in ScoredOrgans : organs = <<o>>
  /\ proposals = <<>>
  /\ pendingTransplant = [t \in TokenIds |-> 0]
  /\ waitingList \in ScoredQueues
  /\ OffChainStart
  /\ registeredRecipients = {}
  /\ useMockAPI = TRUE
  /\ scoringWeights = DefaultWeights

ScoreCalls ==
  \E tok \in {NaN, <<1>>, <<2>>}, r \in {"", "r1", "r2"} :
    ClientCalculateMatchScore(tok, r)

ScoreNext ==
  \/ \E p \in {"", "blood", "urgency"}, f \in {"", "60", "abc"} :
        ClientUpdateScoringWeight(p, f)
  \/ ScoreCalls
  \/ Tick

SpecScore == InitScored /\ [][ScoreNext]_vars

ScoreClockNext == ScoreCalls \/ Tick

SpecScoreClock == InitScored /\ [][ScoreClockNext]_vars

\* the service runs against a deployment whose mode is the mock or the API
InitService ==
  /\ now = 1
  /\ lastTx = Ok("constructor")
  /\ OracleConstructor
  /\ DonorConstructor
  /\ OrganConstructor
  /\ OffChainStart
  /\ registeredRecipients = {}
  /\ useMockAPI \in BOOLEAN
  /\ scoringWeights = DefaultWeights

ServiceNext ==
  \/ \E d \in DonorAddrs : registerDonor(OwnerAcct, d, "Ann", 30, "O-")
  \/ \E d \in DonorAddrs : requestDeathVerification(OtherAcct, d)
  \/ \E i \in 1..MaxRequests : ListenForEvents(i)
  \/ \E i \in 1..MaxRequests : PollPendingRequests(i)
  \/ \E d \in Deliveries, up \in BOOLEAN, v \in BOOLEAN : DeathVerification(d, up, v)
  \/ \E d \in Deliveries : FulfillEstimateGas(d)
  \/ \E d \in Deliveries : FulfillSend(d)
  \/ \E d \in Deliveries : UpdateDonorStatus(d)

SpecService == InitService /\ [][ServiceNext]_vars

\* the oracle service's poll cycle at work while the owner withdraws and restores the
\* oracle account's authorization, so that fulfilments of pending requests fail
RetryNext ==
  \/ \E d \in DonorAddrs : registerDonor(OwnerAcct, d, "Ann", 30, "O-")
  \/ \E d \in DonorAddrs : ClientRequestDeathVerification(OtherAcct, d)
  \/ \E i \in 1..MaxRequests : PollPendingRequests(i)
  \/ \E d \in Deliveries, v \in BOOLEAN : DeathVerification(d, TRUE, v)
  \/ \E d \in Deliveries : FulfillEstimateGas(d)
  \/ \E d \in Deliveries : FulfillSend(d)
  \/ \E d \in Deliveries : UpdateDonorStatus(d)
  \/ \E b \in BOOLEAN : setOracleAuthorization(OwnerAcct, oracleAccount, b)

SpecRetry == Init /\ [][RetryNext]_vars

\* the oracle service, fed by its poll cycle, and the client's manual
\* fulfilment working on requests the client made at the oracle contract
FulfilNext ==
  \/ \E d \in DonorAddrs : registerDonor(OwnerAcct, d, "Ann", 30, "O-")
  \/ \E d \in DonorAddrs : ClientRequestDeathVerification(OtherAcct, d)
  \/ \E i \in 1..MaxRequests : PollPendingRequests(i)
  \/ \E d \in Deliveries, up \in BOOLEAN, v \in BOOLEAN : DeathVerification(d, up, v)
  \/ \E d \in Deliveries : FulfillEstimateGas(d)
  \/ \E d \in Deliveries : FulfillSend(d)
  \/ \E d \in Deliveries : UpdateDonorStatus(d)
  \/ \E a \in {OwnerAcct, OtherAcct}, i \in 0..MaxRequests, b \in BOOLEAN :
        ClientManualFulfillRequest(a, i, b)
  \/ ClientManualConfirmDeath

SpecFulfil == InitService /\ [][FulfilNext]_vars

\* requests made to the oracle, fulfilled or left waiting while time passes,
\* and the client's status query
StatusNext ==
  \/ \E d \in DonorAddrs : registerDonor(OwnerAcct, d, "Ann", 30, "O-")
  \/ \E d \in DonorAddrs : requestDeathVerification(OtherAcct, d)
  \/ \E i \in 1..MaxRequests, b \in BOOLEAN :
        fulfillDeathVerification(OwnerAcct, i, b, CidFor(b))
  \/ \E d \in DonorAddrs \cup {""} : ClientCheckVerificationStatus(d)
  \/ Tick

SpecStatus == Init /\ [][StatusNext]_vars

\* the owner's transactions on the oracle: authorizations of any account,
\* its own included, and ownership transfers, with requests being made
OwnershipNext ==
  \/ \E a \in Accounts, o \in Accounts \cup {ZeroAddr}, b \in BOOLEAN :
        setOracleAuthorization(a, o, b)
  \/ \E a \in Accounts, n \in Accounts \cup {ZeroAddr} : transferOwnership(a, n)
  \/ \E d \in DonorAddrs : requestDeathVerification(OtherAcct, d)

SpecOwnership == Init /\ [][OwnershipNext]_vars

\* the transactions of the Donor registry that register donors and write
\* their status
RegistryNext ==
  \/ \E a \in {OwnerAcct, OtherAcct}, d \in DonorAddrs, n \in {"Ann", ""},
        g \in {17, 18}, b \in {"O-", ""} : registerDonor(a, d, n, g, b)
  \/ \E a \in {OwnerAcct, OtherAcct}, d \in DonorAddrs, st \in DonorStatus :
        updateDonorStatus(a, d, st)
  \/ \E a \in {OwnerAcct, OtherAcct}, d \in DonorAddrs : deactivateDonor(a, d)
  \/ setOracleContract(OwnerAcct, OracleAddr)
  \/ \E d \in DonorAddrs : Donor_requestDeathVerification(OwnerAcct, d)
  \/ \E d \in DonorAddrs, i \in 0..MaxRequests : confirmDeath(OwnerAcct, d, i, "QmEvidence")

SpecRegistry == Init /\ [][RegistryNext]_vars

\* ------------------------------------------------------------------ claims

ProposalsOf(list, tokenId) == {k \in 1..Len(list) : list[k].organ = tokenId}
ActiveIn(list, recipient, organType) ==
  {k \in 1..Len(list) :
     /\ list[k].recipient = recipient
     /\ list[k].organType = organType
     /\ list[k].isActive}
Minted == 1..Len(organs)

\* an allocation call on organ o, through either path
AllocationCall(o) ==
  \/ \E r \in Recipients : ClientAllocateOrgan(o, r)
  \/ \E r \in Recipients, h \in Hospitals : ClientMatchOrgan(o, r, h)

C2_AllocateAllOrNothing ==
  [][\A o \in Minted, r \in Recipients :
       ClientAllocateOrgan(o, r) =>
         \/ UNCHANGED <<organs, waitingList, proposals>>
         \/ /\ organs'[o].status = "Matched"
            /\ organs'[o].assignedRecipient = r
            /\ ActiveIn(waitingList', r, organs[o].organType) = {}
            /\ Len(waitingList') = Len(waitingList)
            /\ Len(proposals') = Len(proposals) + 1
            /\ proposals'[Len(proposals')].organ = o
            /\ proposals'[Len(proposals')].recipient = r
            /\ proposals'[Len(proposals')].status = "Matched"]_vars

C2_Witness ==
  \E o \in Minted, k \in 1..Len(proposals), e \in 1..Len(waitingList) :
    /\ lastTx = "ok"
    /\ organs[o].status = "Matched"
    /\ proposals[k].organ = o
    /\ proposals[k].status = "Matched"
    /\ organs[o].assignedRecipient = proposals[k].recipient
    /\ waitingList[e].recipient = proposals[k].recipient
    /\ waitingList[e].organType = organs[o].organType
    /\ ~waitingList[e].isActive

\* C3: a donor's status is Deceased only if an oracle request for that donor is
\* fulfilled with isDeceased = true.
C3_DeceasedOnlyIfVerified ==
  \A d \in DonorAddrs :
    donors[d].status = "Deceased" =>
      \E i \in ReqIds :
        /\ requests[i].donorAddress = d
        /\ requests[i].fulfilled
        /\ requests[i].isDeceased

\* the unfulfilled requests of a donor
Unfulfilled(d) ==
  {i \in ReqIds : /\ requests[i].requestId # 0
                  /\ requests[i].donorAddress = d
                  /\ ~requests[i].fulfilled}

\* C4: each donor address has at most one verification request with
\* fulfilled = false.
C4_OneUnfulfilledPerDonor ==
  \A d \in DonorAddrs : Cardinality(Unfulfilled(d)) <= 1

\* C5: a request for a donor that already has an unfulfilled request fails with
\* AlreadyPending: no request record is created and the donor's latest-request
\* id and the id counter stay as they were.
C5_SecondRequestAlreadyPending ==
  [][\A d \in DonorAddrs :
       (Unfulfilled(d) # {} /\ \E a \in AllAddrs : requestDeathVerification(a, d))
         => /\ lastTx' = "AlreadyPending"
            /\ UNCHANGED <<requests, donorLatestRequest, requestIdCounter>>]_vars

\* a fulfil attempt on request i, by either function
FulfilAttempt(i) ==
  \/ \E a \in Accounts, b \in BOOLEAN, c \in EvidenceCIDs :
        fulfillDeathVerification(a, i, b, c)
  \/ \E a \in Accounts, b \in BOOLEAN, c \in EvidenceCIDs :
        \E sg \in SigInputs(a, i, b, c) : fulfillWithSignature(a, i, b, c, sg)

\* C6: once a request is fulfilled no operation changes any of its fields, and
\* a further fulfil attempt on it fails.
C6_FulfilledImmutable ==
  [][\A i \in ReqIds :
       requests[i].fulfilled =>
         /\ requests'[i] = requests[i]
         /\ FulfilAttempt(i) => lastTx' # "ok" /\ UNCHANGED oracleVars]_vars

C6_Witness ==
  /\ lastTx = "Request already fulfilled"
  /\ \E i \in ReqIds :
       /\ requests[i].fulfilled
       /\ requests[i].fulfilledBy # ZeroAddr
       /\ requests[i].fulfilledTimestamp < now

\* C7: an organ has an assignedRecipient exactly when its status is Matched or
\* Transplanted.
C7_AssignedIffMatchedOrTransplanted ==
  \A o \in Minted :
    (organs[o].assignedRecipient # ZeroAddr)
      <=> (organs[o].status \in {"Matched", "Transplanted"})

\* C8: markTransplanted moves an organ to Transplanted only if its status is
\* Matched when the transaction is applied; otherwise it fails with InvalidState
\* and leaves the organ as it was, also when the status changed after the
\* client read it.
C8_TransplantOnlyFromMatched ==
  [][\A o \in Minted :
       ClientMarkTransplantedSend(o) =>
         IF organs[o].status = "Matched"
           THEN organs' = [organs EXCEPT ![o].status = "Transplanted"]
           ELSE /\ lastTx' = "InvalidState: organ not Matched"
                /\ organs' = organs]_vars

C8_Witness ==
  \E o \in Minted :
    /\ lastTx = "InvalidState: organ not Matched"
    /\ organs[o].status \notin {"Matched", "Transplanted"}

\* C9: Transplanted, Expired and Rejected are terminal: once an organ has one
\* of them, no operation changes its status.
C9_TerminalStatuses ==
  [][\A o \in Minted :
       organs[o].status \in {"Transplanted", "Expired", "Rejected"}
         => organs'[o].status = organs[o].status]_vars

\* C10: markExpired on a Matched organ sets the organ to Expired and its
\* proposal to Expired, and leaves the waiting list as it was: the matched
\* recipient's entry stays inactive.
C10_ExpireMatched ==
  [][\A o \in Minted :
       (organs[o].status = "Matched" /\ ClientMarkExpired(o)) =>
         /\ organs'[o].status = "Expired"
         /\ \A k \in ProposalsOf(proposals, o) :
              proposals[k].status = "Matched" => proposals'[k].status = "Expired"
         /\ waitingList' = waitingList]_vars

C10_Witness ==
  \E o \in Minted, k \in 1..Len(proposals) :
    /\ organs[o].status = "Expired"
    /\ proposals[k].organ = o
    /\ proposals[k].status = "Expired"
    /\ ActiveEntries(proposals[k].recipient, organs[o].organType) = {}
    /\ \E e \in 1..Len(waitingList) :
         /\ waitingList[e].recipient = proposals[k].recipient
         /\ waitingList[e].organType = organs[o].organType

\* an add for the pair (r, t) that gets past the handler's own checks
AddSubmitted(r, t) ==
  \/ ClientAddToMatchingWaitingList(r, t, 5, "X", 1)
  \/ \E f \in {"5", "11"} : ClientAddToWaitingList(r, t, f)
  \/ \E u \in {0, 5} : BackendAddToWaitingList(TRUE, r, t, u)

C20_SubmittedUrgencyInRange ==
  \A i \in 1..Len(submittedUrgency) : submittedUrgency[i] \in 1..10

\* C19: a failing contract call behind a backend endpoint never terminates the
\* server: the request gets exactly one response, which carries the error when
\* the call failed, and the server stays up to serve later requests.
C19_BackendSurvivesErrors ==
  [][/\ serverUp'
     /\ Len(httpResponse') = 1
     /\ httpResponse'[1].success => (lastTx' = "ok" /\ httpResponse'[1].status = 200)
     /\ (isInitialized' /\ lastTx' # "ok")
          => /\ httpResponse'[1].status = 500
             /\ ~httpResponse'[1].success
             /\ httpResponse'[1].error[Len(httpResponse'[1].error)] = lastTx']_vars

C19_Witness ==
  /\ serverUp
  /\ isInitialized
  /\ lastTx = "Donor already registered"
  /\ Len(httpResponse) = 1
  /\ httpResponse[1].status = 500
  /\ httpResponse[1].error = <<"Register donor failed", "Donor already registered">>

\* the positions of the raw queue in the order the rows show them
RowOrders(rows, q) ==
  {p \in [1..Len(q) -> 1..Len(q)] :
     /\ \A i, j \in 1..Len(q) : i # j => p[i] # p[j]
     /\ \A i \in 1..Len(q) : rows[i] = q[p[i]]}

\* C12: the prioritized list holds the entries of its queue ordered by priority
\* descending, then urgencyLevel descending, then addedTimestamp ascending, and
\* entries equal on all three keys keep their insertion order.
C12_PrioritizeOrder ==
  matchingResults.kind = "prioritized" =>
    LET q == Queue(waitingList, matchingResults.organType, matchingResults.region)
        rows == matchingResults.rows
    IN /\ Len(rows) = Len(q)
       /\ \E p \in RowOrders(rows, q) :
            \A i, j \in 1..Len(q) :
              i < j =>
                \/ rows[i].priority > rows[j].priority
                \/ /\ rows[i].priority = rows[j].priority
                   /\ rows[i].urgencyLevel > rows[j].urgencyLevel
                \/ /\ rows[i].priority = rows[j].priority
                   /\ rows[i].urgencyLevel = rows[j].urgencyLevel
                   /\ rows[i].addedTimestamp < rows[j].addedTimestamp
                \/ /\ rows[i].priority = rows[j].priority
                   /\ rows[i].urgencyLevel = rows[j].urgencyLevel
                   /\ rows[i].addedTimestamp = rows[j].addedTimestamp
                   /\ p[i] < p[j]

C12_Witness ==
  /\ matchingResults.kind = "prioritized"
  /\ Len(matchingResults.rows) = 3
  /\ matchingResults.rows # Queue(waitingList, "Heart", "X")
  /\ matchingResults.rows[1].priority = matchingResults.rows[2].priority
  /\ matchingResults.rows[1].urgencyLevel = matchingResults.rows[2].urgencyLevel
  /\ matchingResults.rows[1].addedTimestamp < matchingResults.rows[2].addedTimestamp

\* C13: whatever the weights have been set to, a match score's totalScore is
\* the sum of its five components and is at most 100.
C13_TotalIsSumAtMost100 ==
  matchingResults.kind = "score" =>
    /\ matchingResults.score.totalScore =
         matchingResults.score.bloodCompatibility + matchingResults.score.urgencyScore
         + matchingResults.score.waitingTimeScore + matchingResults.score.geographicScore
         + matchingResults.score.medicalScore
    /\ matchingResults.score.totalScore <= 100

\* the antigens a blood type carries
Antigens(t) ==
  CASE t = "O-" -> {}
    [] t = "O+" -> {"Rh"}
    [] t = "A-" -> {"A"}
    [] t = "A+" -> {"A", "Rh"}
    [] t = "B-" -> {"B"}
    [] t = "B+" -> {"B", "Rh"}
    [] t = "AB-" -> {"A", "B"}
    [] t = "AB+" -> {"A", "B", "Rh"}

\* C14: for the eight ABO/Rh types, checkBloodCompatibility(d, r) is true
\* exactly when the ABO/Rh table allows d to donate to r, that is, when r
\* carries every antigen d carries; O- donates to all and AB+ receives from all.
C14_BloodTable ==
  /\ matchingResults.kind = "compatibility"
  /\ matchingResults.donorBlood \in BloodTypes
  /\ matchingResults.recipientBlood \in BloodTypes
  => /\ matchingResults.isBloodCompatible =
          (Antigens(matchingResults.donorBlood)
             \subseteq Antigens(matchingResults.recipientBlood))
     /\ matchingResults.donorBlood = "O-" => matchingResults.isBloodCompatible
     /\ matchingResults.recipientBlood = "AB+" => matchingResults.isBloodCompatible

C14_Witness ==
  /\ matchingResults.kind = "compatibility"
  /\ matchingResults.donorBlood = "A-"
  /\ matchingResults.recipientBlood = "AB-"
  /\ matchingResults.isBloodCompatible

\* C15: a second calculateMatchScore call for the compatible pair whose score
\* is shown, with organ, recipient, waiting list and weights as they were,
\* returns the same MatchScore, waiting-time component included, whatever
\* time has passed since the first call.
C15_ScoreSameAtAnyTime ==
  [][\A tok \in TokenIds, r \in Recipients :
       /\ matchingResults.kind = "score"
       /\ matchingResults.tokenId = tok
       /\ matchingResults.recipient = r
       /\ matchingResults.score.isCompatible
       /\ ClientCalculateMatchScore(<<tok>>, r)
       => matchingResults'.score = matchingResults.score]_vars

\* C16: however often and in whatever interleaving a request is delivered to
\* the oracle service, its death check is run at most once and a fulfilment
\* transaction for it is submitted at most once.
C16_AtMostOnePerRequest ==
  \A i \in 1..MaxRequests : deathChecks[i] <= 1 /\ fulfilSends[i] <= 1

\* C17: a processRequest call whose verification API call failed fulfils
\* nothing: the request it was working on stays unfulfilled.
C17_NoFallbackFulfilment ==
  [][\A d \in Deliveries :
       tasks[d].source = "fallback" /\ FulfillSend(d)
       => requests' = requests /\ ~RequestAt(tasks[d].requestId).fulfilled]_vars

\* C18: while a donor's latest verification request is unfulfilled, the status
\* query answers fulfilled = false and isDeceased = false, without an error
\* and without changing contract state, and the passage of time leaves the
\* request as it is.
C18_UnfulfilledIsWaiting ==
  [][\A d \in DonorAddrs :
       donorLatestRequest[d] \in Unfulfilled(d) =>
         /\ getDeathVerification(d) = <<FALSE, FALSE, "">>
         /\ ClientCheckVerificationStatus(d) =>
              /\ matchingResults'.kind = "verification"
              /\ ~matchingResults'.isVerified
              /\ ~matchingResults'.isDeceased
              /\ UNCHANGED <<oracleVars, donorVars>>
         /\ Tick => UNCHANGED requests]_vars

\* C21: request ids are issued from the counter, strictly increasing from 1
\* and never reused: after every step each stored request's requestId is the
\* key it is stored under and is smaller than the counter, a new request takes
\* the counter's value and advances it by one, a stored request keeps its id,
\* donor and requester, and the counter never reaches back to 0, the id of no
\* request.
C21_RequestIdsIncreasing ==
  [][/\ requestIdCounter >= 1
     /\ requestIdCounter' >= requestIdCounter
     /\ \A i \in ReqIds :
          /\ requests'[i].requestId # 0 =>
               requests'[i].requestId = i /\ i < requestIdCounter'
          /\ requests[i].requestId # 0 =>
               /\ requests'[i].requestId = requests[i].requestId
               /\ requests'[i].donorAddress = requests[i].donorAddress
               /\ requests'[i].requester = requests[i].requester
          /\ requests[i].requestId = 0 /\ requests'[i].requestId # 0 =>
               i = requestIdCounter /\ requestIdCounter' = i + 1]_vars

C21_Witness ==
  /\ requestIdCounter = 3
  /\ requests[1].requestId = 1
  /\ requests[2].requestId = 2
  /\ requests[1].fulfilled
  /\ lastTx = "ok"

\* C24: in every reachable state the owner of the oracle contract is an
\* authorized oracle.
C24_OwnerAuthorized == authorizedOracles[oracleOwner]

\* C25: once getDeathVerification(donor) reports isVerified = true and
\* isDeceased = true, it reports the same after every later step.
C25_DeceasedVerdictStays ==
  [][\A d \in DonorAddrs :
       getDeathVerification(d)[1] /\ getDeathVerification(d)[2]
       => getDeathVerification(d)' = getDeathVerification(d)]_vars

\* C26: once a donor's status is Deceased, no transaction of the registry
\* changes it to another status.
C26_DeceasedTerminal ==
  [][\A d \in DonorAddrs :
       donors[d].status = "Deceased" /\ isDonorRegistered[d]
       => donors'[d].status = "Deceased"]_vars

\* C30: after every step donorList holds exactly the registered addresses,
\* each once, every registered donor has age >= 18 and a non-empty name and
\* blood type, and a registerDonor call that was rejected has changed nothing
\* in the registry.
C30_RegistryConsistent ==
  [][/\ \A d \in DonorAddrs :
          /\ isDonorRegistered'[d] =
               (\E k \in 1..Len(donorList') : donorList'[k] = d)
          /\ Cardinality({k \in 1..Len(donorList') : donorList'[k] = d}) <= 1
          /\ isDonorRegistered'[d] =>
               /\ donors'[d].age >= 18
               /\ donors'[d].name # ""
               /\ donors'[d].bloodType # ""
     /\ \A k \in 1..Len(donorList') : donorList'[k] \in DonorAddrs
     /\ \A a \in {OwnerAcct, OtherAcct}, d \in DonorAddrs, n \in {"Ann", ""},
           g \in {17, 18}, b \in {"O-", ""} :
          registerDonor(a, d, n, g, b) /\ lastTx' # "ok"
          => UNCHANGED <<donorVars, oracleVars>>]_vars

C30_Witness ==
  /\ Len(donorList) = 2
  /\ isDonorRegistered["d1"]
  /\ isDonorRegistered["d2"]
  /\ lastTx = "Donor already registered"

\* C22: a request fulfilled with isDeceased = true by the oracle service or by
\* the client's manual fulfilment brings the donor to status Deceased: the
\* confirmDeath that follows the fulfilment leaves the request's donor
\* Deceased, also for a request the client made at the oracle contract.
C22_FulfilledDeceasedUpdatesDonor ==
  [][/\ \A d \in Deliveries :
          UpdateDonorStatus(d) => donors'[tasks[d].donorAddress].status = "Deceased"
     /\ ClientManualConfirmDeath =>
          donors'[manualTask.donorAddress].status = "Deceased"]_vars

\* C23: Donor.confirmDeath is sent for a request only after the fulfilment
\* transaction of that request, sent by the same attempt, succeeded with
\* isDeceased = true; an attempt whose fulfilment reverts or reports not
\* deceased sends no confirmDeath.
C23_ConfirmOnlyAfterFulfil ==
  [][/\ \A d \in Deliveries :
          /\ UpdateDonorStatus(d) =>
               /\ RequestAt(tasks[d].requestId).fulfilled
               /\ RequestAt(tasks[d].requestId).isDeceased
               /\ tasks[d].isDeceased
          /\ FulfillSend(d) /\ (lastTx' # "ok" \/ ~tasks[d].isDeceased) =>
               tasks'[d].pc = "idle"
          /\ tasks'[d].pc = "updateDonor" /\ tasks[d].pc # "updateDonor" =>
               FulfillSend(d) /\ lastTx' = "ok" /\ tasks[d].isDeceased
     /\ ClientManualConfirmDeath =>
          /\ RequestAt(manualTask.requestId).fulfilled
          /\ RequestAt(manualTask.requestId).isDeceased
     /\ manualTask' # NoManualTask /\ manualTask = NoManualTask =>
          /\ lastTx' = "ok"
          /\ ~RequestAt(manualTask'.requestId).fulfilled
          /\ requests'[manualTask'.requestId].fulfilled
          /\ requests'[manualTask'.requestId].isDeceased]_vars

\* the service and the client are both about to send confirmDeath, each for
\* a request of its own
C23_Witness ==
  /\ tasks["poll"].pc = "updateDonor"
  /\ manualTask # NoManualTask
  /\ manualTask.requestId # tasks["poll"].requestId

\* C29: a request id is in processedRequests only if its fulfilment succeeded
\* on chain; an attempt that fails records nothing, and a request that is
\* still pending is taken up again by the poll cycle whenever the cycle runs.
C29_ProcessedOnlyIfFulfilled ==
  [][/\ \A i \in processedRequests' : requests'[i].fulfilled
     /\ \A d \in Deliveries :
          \/ FulfillEstimateGas(d) /\ tasks'[d].pc = "idle"
          \/ FulfillSend(d) /\ lastTx' # "ok"
          => processedRequests' = processedRequests
     /\ \A i \in getPendingRequests :
          tasks["poll"].pc = "idle" /\ deathChecks[i] < MaxChecks
          => ENABLED PollPendingRequests(i)]_vars

\* the poll cycle is processing a pending request again after an earlier
\* attempt on it got as far as the death check and ended without fulfilment
C29_Witness ==
  \E i \in getPendingRequests :
    /\ i \notin processedRequests
    /\ deathChecks[i] >= 1
    /\ tasks["event"].pc = "idle"
    /\ tasks["poll"].pc = "verify"
    /\ tasks["poll"].requestId = i

\* C27: a mutating backend endpoint answers success: true exactly when the
\* contract transaction it submitted was committed; a committed transaction
\* is never answered with an error response.
C27_SuccessIffCommitted ==
  [][isInitialized' => (httpResponse'[1].success <=> lastTx' = "ok")]_vars

\* C28: the backend initialises the contract service at most once: no caller
\* starts contractService.initialize() while another caller's is in progress,
\* and none starts it once isInitialized is set.
C28_InitializeAtMostOnce ==
  [][\A c \in InitCallers :
       initializing'[c] = "running" /\ initializing[c] # "running"
       => /\ ~isInitialized
          /\ \A o \in InitCallers : initializing[o] # "running"]_vars

====
